---- MODULE Spec2Model ----
(***************************************************************************)
(* Control-flow-graph construction for Java method bodies (CFGBuilder),     *)
(* empty-block removal (clean_cfg), simple-path enumeration                 *)
(* (_enumerate_paths) and data-flow path assembly (DFGBuilder).             *)
(*                                                                          *)
(* Heap objects are modelled by index: a Block is its id (ids are handed    *)
(* out 1, 2, ... by new_block, so blocks[id] is the block), a Link is its   *)
(* position in creation order in links.  A block's exits and predecessors   *)
(* are sequences of link indices, so identity of Link objects, order and    *)
(* multiplicity in the Python lists are all kept.                           *)
(*                                                                          *)
(* Source text is modelled as a sequence of tokens (one-string each).       *)
(***************************************************************************)
EXTENDS Integers, Sequences, FiniteSets, TLC

\* The largest number of AST nodes (statements and switch groups) of a method body.
MaxNodes == 3

----------------------------------------------------------------------------
(* Generic sequence helpers (Python list operations).                       *)

Range(s) == {s[i] : i \in 1..Len(s)}

\* x in list
In(x, s) == \E i \in 1..Len(s) : s[i] = x

\* list.remove(x): deletes the first occurrence (x is known to be present).
Remove(s, x) ==
  LET i == CHOOSE k \in 1..Len(s) : s[k] = x /\ \A j \in 1..(k-1) : s[j] # x
  IN  SubSeq(s, 1, i-1) \o SubSeq(s, i+1, Len(s))

\* The number of positions of s that hold x.
Count(s, x) == Cardinality({i \in 1..Len(s) : s[i] = x})

Last(s) == s[Len(s)]

\* list.pop()
Pop(s) == SubSeq(s, 1, Len(s)-1)

----------------------------------------------------------------------------
(* The AST handed over by the parser.  Every node has the same shape:       *)
(*   type    the tree-sitter node type                                      *)
(*   row     start_point[0], the 0-based source row (row 0 is the method    *)
(*           header, so the first body statement is on row 1); every node   *)
(*           starts on a row of its own                                     *)
(*   hasCond whether child_by_field_name('condition') is present (for a     *)
(*           switch group: whether its first child is a switch_label)       *)
(*   body    named children of the 'body' / 'consequence' field (for a      *)
(*           switch group: its statements)                                  *)
(*   hasAlt  whether child_by_field_name('alternative') is present          *)
(*   alt     named children of the alternative                              *)
(* The source text of a node is a function of its type and row (see text).  *)

Node(type, row, hasCond, body, hasAlt, alt) ==
  [type |-> type, row |-> row, hasCond |-> hasCond, body |-> body,
   hasAlt |-> hasAlt, alt |-> alt]

LeafTypes == {"expression_statement", "return_statement",
              "break_statement", "continue_statement"}

RECURSIVE Trees(_, _), Forests(_, _), Groups(_, _)

\* All statement lists with exactly n nodes whose first node is on row `row`.
Forests(n, row) ==
  IF n = 0 THEN {<<>>}
  ELSE UNION { { <<t>> \o f : t \in Trees(k, row), f \in Forests(n - k, row + k) }
               : k \in 1..n }

\* All lists of switch groups with exactly n nodes (a group counts as one node).
Groups(n, row) ==
  IF n = 0 THEN {<<>>}
  ELSE UNION { { <<Node("switch_block_statement_group", row, TRUE, b, FALSE, <<>>)>> \o g
                 : b \in Forests(k - 1, row + 1), g \in Groups(n - k, row + k) }
               : k \in 1..n }

\* All statements with exactly n nodes starting on row `row`.
Trees(n, row) ==
  (IF n = 1 THEN {Node(t, row, FALSE, <<>>, FALSE, <<>>) : t \in LeafTypes} ELSE {})
  \cup { Node("if_statement", row, TRUE, b, FALSE, <<>>) : b \in Forests(n - 1, row + 1) }
  \cup UNION { { Node("if_statement", row, TRUE, b, TRUE, a)
                 : b \in Forests(k, row + 1), a \in Forests(n - 1 - k, row + 1 + k) }
               : k \in 0..(n - 1) }
  \cup { Node("while_statement", row, TRUE, b, FALSE, <<>>)
         : b \in Forests(n - 1, row + 1) }
  \cup { Node("for_statement", row, c, b, FALSE, <<>>)
         : b \in Forests(n - 1, row + 1), c \in BOOLEAN }
  \cup { Node("switch_expression", row, FALSE, g, FALSE, <<>>)
         : g \in Groups(n - 1, row + 1) }

(* Source text is a sequence of tokens (an identifier, keyword or symbol    *)
(* each).  The text of a node depends on its type and row only.             *)

\* The identifiers a statement on a given row mentions.
VarA(row) == IF row = 1 THEN "c" ELSE "x"
VarB(row) == IF row % 2 = 0 THEN "y" ELSE "c"

\* node.text of the 'condition' child (for a switch group: of its label).
\* An if / while condition is a parenthesized expression, a for condition is bare.
cond_of(node) ==
  CASE node.type = "for_statement" -> <<"!", VarB(node.row)>>
    [] node.type = "switch_block_statement_group" -> <<"case", VarB(node.row), ":">>
    [] OTHER -> <<"(", VarB(node.row), ")">>

----------------------------------------------------------------------------
(* model.py: Block, Link, CFG.                                              *)

\* Link.exitcase of an unconditional link (Python None); differs from every text.
None == <<"<None>">>

\* Block.__init__
Block == [statements |-> <<>>, predecessors |-> <<>>, exits |-> <<>>]

\* Link.__init__
Link(source, target, exitcase) ==
  [source |-> source, target |-> target, exitcase |-> exitcase]

\* Block.is_empty
is_empty(b) == Len(b.statements) = 0

----------------------------------------------------------------------------
(* CFGBuilder.  A builder state st bundles the builder's fields, the CFG    *)
(* under construction and the heap of blocks and links:                     *)
(*   blocks, links           the heap                                       *)
(*   entryblock, finalblocks fields of self.cfg                             *)
(*   current_block, current_id, separate_node_blocks,                       *)
(*   after_loop_block_stack, after_switch_block_stack,                      *)
(*   curr_loop_guard_stack   fields of the builder                          *)
(*   spliced                 history only, never read by the code: for each *)
(*                           link clean_cfg created, the triple             *)
(*                           <<pred, exit, new link>> it was created for    *)
(*   jumps                   history only, never read by the code: for each *)
(*                           break or continue statement visited, the node  *)
(*                           and the builder state before and after         *)
(*   switches                history only, never read by the code: for each *)
(*                           switch visited, its node, the block that holds *)
(*                           it, its after-switch block and, per case group *)
(*                           visited so far, the case block, the ids of the *)
(*                           blocks created for the group's statements      *)
(*                           (first..last), the current block when the      *)
(*                           statements are done, whether that block had no *)
(*                           exits then (open) and whether it has a link to *)
(*                           the after-switch block when the group is done  *)

\* CFGBuilder.__init__ (current_block None is 0; no cfg yet).
NewBuilder(separate) ==
  [blocks |-> <<>>, links |-> <<>>, entryblock |-> 0, finalblocks |-> <<>>,
   current_block |-> 0, current_id |-> 0, separate_node_blocks |-> separate,
   after_loop_block_stack |-> <<>>, after_switch_block_stack |-> <<>>,
   curr_loop_guard_stack |-> <<>>, spliced |-> <<>>, jumps |-> <<>>,
   switches |-> <<>>]

\* new_block: the new block is st.current_id of the result.
new_block(st) ==
  [st EXCEPT !.current_id = st.current_id + 1,
             !.blocks = Append(st.blocks, Block)]

add_statement(st, block, statement) ==
  [st EXCEPT !.blocks[block].statements = Append(@, statement)]

add_exit(st, block, nextblock, exitcase) ==
  LET newlink == Len(st.links) + 1 IN
  [st EXCEPT !.links = Append(st.links, Link(block, nextblock, exitcase)),
             !.blocks = [[st.blocks EXCEPT ![block].exits = Append(@, newlink)]
                           EXCEPT ![nextblock].predecessors = Append(@, newlink)]]

\* Mutant of new_loopguard: the guard is always a new block.
new_loopguard_always_new(st) ==
  LET s1 == new_block(st)
      s2 == add_exit(s1, st.current_block, s1.current_id, None)
  IN  [s2 EXCEPT !.current_block = s1.current_id]

\* new_loopguard: the guard is current_block of the result.
new_loopguard(st) ==
  IF is_empty(st.blocks[st.current_block])
     /\ Len(st.blocks[st.current_block].exits) = 0
  THEN st
  ELSE LET s1 == new_block(st)
           s2 == add_exit(s1, st.current_block, s1.current_id, None)
       IN  [s2 EXCEPT !.current_block = s1.current_id]

\* get_text: node.text.decode(), a conversion that keeps the tokens.
get_text(text) == text

\* str.strip() of a token text: blanks at either end are dropped.
RECURSIVE lstrip(_)
lstrip(t) == IF Len(t) > 0 /\ Head(t) = " " THEN lstrip(Tail(t)) ELSE t
RECURSIVE rstrip(_)
rstrip(t) == IF Len(t) > 0 /\ Last(t) = " " THEN rstrip(Pop(t)) ELSE t
strip(t) == rstrip(lstrip(t))

\* Mutant of invert: the condition is returned as it is.
invert_same(cond_text) == strip(cond_text)

invert(cond_text) ==
  LET c == strip(cond_text) IN
  IF Len(c) > 0 /\ Head(c) = "!" THEN strip(Tail(c))
  ELSE <<"!", "(">> \o c \o <<")">>

\* "if not self.current_block.exits: self.add_exit(self.current_block, target)"
link_if_open(st, target) ==
  IF Len(st.blocks[st.current_block].exits) = 0
  THEN add_exit(st, st.current_block, target, None)
  ELSE st

\* visit_expression_statement (visit_generic and visit_local_variable_declaration
\* have the same body).
visit_expression_statement(st, node) ==
  LET s1 == add_statement(st, st.current_block, node) IN
  IF st.separate_node_blocks
  THEN LET s2 == new_block(s1)
           s3 == add_exit(s2, s2.current_block, s2.current_id, None)
       IN  [s3 EXCEPT !.current_block = s2.current_id]
  ELSE s1

visit_return_statement(st, node) ==
  LET s1 == add_statement(st, st.current_block, node)
      s2 == [s1 EXCEPT !.finalblocks = Append(@, st.current_block)]
      s3 == new_block(s2)
  IN  [s3 EXCEPT !.current_block = s3.current_id]

\* Mutant of visit_break_statement: the loop stack is looked at first.
visit_break_statement_loop_first(st, node) ==
  IF Len(st.after_loop_block_stack) > 0
  THEN add_exit(st, st.current_block, Last(st.after_loop_block_stack), None)
  ELSE IF Len(st.after_switch_block_stack) > 0
  THEN add_exit(st, st.current_block, Last(st.after_switch_block_stack), None)
  ELSE st

visit_break_statement(st, node) ==
  IF Len(st.after_switch_block_stack) > 0
  THEN add_exit(st, st.current_block, Last(st.after_switch_block_stack), None)
  ELSE IF Len(st.after_loop_block_stack) > 0
  THEN add_exit(st, st.current_block, Last(st.after_loop_block_stack), None)
  ELSE st

\* Mutant of visit_continue_statement: a new current block is started after it.
visit_continue_statement_new_block(st, node) ==
  LET s1 == IF Len(st.curr_loop_guard_stack) > 0
            THEN add_exit(st, st.current_block, Last(st.curr_loop_guard_stack), None)
            ELSE st
      s2 == new_block(s1)
  IN  [s2 EXCEPT !.current_block = s2.current_id]

visit_continue_statement(st, node) ==
  IF Len(st.curr_loop_guard_stack) > 0
  THEN add_exit(st, st.current_block, Last(st.curr_loop_guard_stack), None)
  ELSE st

\* The builder state without its histories.
Forget(st) == [st EXCEPT !.spliced = <<>>, !.jumps = <<>>, !.switches = <<>>]

\* The visit of a break or continue statement goes into the history jumps.
noted(st, node, after) ==
  [after EXCEPT !.jumps = Append(@, [node |-> node, before |-> Forget(st),
                                     after |-> Forget(after)])]

\* A case group has been visited: it goes into the history of its switch.
\* before / done are the builder states before and after the group's statements,
\* st the state when the group is done.
noted_group(st, after_switch, case_block, before, done) ==
  LET g == [case_block |-> case_block,
            first      |-> before.current_id + 1,
            last       |-> done.current_id,
            current    |-> done.current_block,
            open       |-> Len(done.blocks[done.current_block].exits) = 0,
            linked     |-> \E j \in 1..Len(st.blocks[done.current_block].exits) :
                             st.links[st.blocks[done.current_block].exits[j]].target
                               = after_switch]
  IN  [st EXCEPT !.switches =
         [k \in DOMAIN @ |->
            IF @[k].after_switch = after_switch
            THEN [@[k] EXCEPT !.groups = Append(@, g)]
            ELSE @[k]]]

RECURSIVE visit(_, _), visit_block(_, _), visit_if_statement(_, _),
          visit_while_statement(_, _), visit_for_statement(_, _),
          visit_switch_expression(_, _), visit_groups(_, _, _, _, _)

\* visit_block: the children are visited in order.
visit_block(st, children) ==
  IF Len(children) = 0 THEN st
  ELSE visit_block(visit(st, Head(children)), Tail(children))

visit_if_statement(st, node) ==
  LET cur       == st.current_block
      s1        == add_statement(st, cur, node)
      cond_text == get_text(cond_of(node))
      s2        == new_block(s1)
      if_block  == s2.current_id
      s3        == add_exit(s2, cur, if_block, cond_text)
      s4        == new_block(s3)
      after_if  == s4.current_id
      s5        == IF node.hasAlt
                   THEN LET a1 == new_block(s4)
                            else_block == a1.current_id
                            a2 == add_exit(a1, cur, else_block, invert(cond_text))
                            a3 == [a2 EXCEPT !.current_block = else_block]
                            a4 == visit_block(a3, node.alt)
                        IN  link_if_open(a4, after_if)
                   ELSE add_exit(s4, cur, after_if, invert(cond_text))
      s6        == [s5 EXCEPT !.current_block = if_block]
      s7        == visit_block(s6, node.body)
      s8        == link_if_open(s7, after_if)
  IN  [s8 EXCEPT !.current_block = after_if]

\* Mutant of visit_while_statement: the body is not linked back to the guard.
visit_while_statement_open(st, node) ==
  LET s1          == new_loopguard(st)
      loop_guard  == s1.current_block
      s2          == add_statement(s1, loop_guard, node)
      cond_text   == get_text(cond_of(node))
      s3          == [s2 EXCEPT !.curr_loop_guard_stack = Append(@, loop_guard)]
      s4          == new_block(s3)
      while_block == s4.current_id
      s5          == add_exit(s4, loop_guard, while_block, cond_text)
      s6          == new_block(s5)
      after_while == s6.current_id
      s7          == [s6 EXCEPT !.after_loop_block_stack = Append(@, after_while)]
      s8          == add_exit(s7, loop_guard, after_while, invert(cond_text))
      s9          == [s8 EXCEPT !.current_block = while_block]
      s10         == visit_block(s9, node.body)
  IN  [s10 EXCEPT !.current_block = after_while,
                  !.after_loop_block_stack = Pop(@),
                  !.curr_loop_guard_stack = Pop(@)]

visit_while_statement(st, node) ==
  LET s1          == new_loopguard(st)
      loop_guard  == s1.current_block
      s2          == add_statement(s1, loop_guard, node)
      cond_text   == get_text(cond_of(node))
      s3          == [s2 EXCEPT !.curr_loop_guard_stack = Append(@, loop_guard)]
      s4          == new_block(s3)
      while_block == s4.current_id
      s5          == add_exit(s4, loop_guard, while_block, cond_text)
      s6          == new_block(s5)
      after_while == s6.current_id
      s7          == [s6 EXCEPT !.after_loop_block_stack = Append(@, after_while)]
      s8          == add_exit(s7, loop_guard, after_while, invert(cond_text))
      s9          == [s8 EXCEPT !.current_block = while_block]
      s10         == visit_block(s9, node.body)
      s11         == link_if_open(s10, loop_guard)
  IN  [s11 EXCEPT !.current_block = after_while,
                  !.after_loop_block_stack = Pop(@),
                  !.curr_loop_guard_stack = Pop(@)]

\* Mutant of visit_for_statement: the guard is left on its stack.
visit_for_statement_keeps_guard(st, node) ==
  LET s1         == new_loopguard(st)
      loop_guard == s1.current_block
      s2         == add_statement(s1, loop_guard, node)
      hasText    == node.hasCond /\ Len(get_text(cond_of(node))) > 0
      cond_text  == get_text(cond_of(node))
      s3         == [s2 EXCEPT !.curr_loop_guard_stack = Append(@, loop_guard)]
      s4         == new_block(s3)
      for_block  == s4.current_id
      s5         == add_exit(s4, loop_guard, for_block,
                             IF hasText THEN cond_text ELSE None)
      s6         == new_block(s5)
      after_for  == s6.current_id
      s7         == add_exit(s6, loop_guard, after_for,
                             IF hasText THEN invert(cond_text) ELSE None)
      s8         == [s7 EXCEPT !.after_loop_block_stack = Append(@, after_for),
                               !.current_block = for_block]
      s9         == visit_block(s8, node.body)
      s10        == link_if_open(s9, loop_guard)
  IN  [s10 EXCEPT !.current_block = after_for,
                  !.after_loop_block_stack = Pop(@)]

visit_for_statement(st, node) ==
  LET s1         == new_loopguard(st)
      loop_guard == s1.current_block
      s2         == add_statement(s1, loop_guard, node)
      hasText    == node.hasCond /\ Len(get_text(cond_of(node))) > 0
      cond_text  == get_text(cond_of(node))
      s3         == [s2 EXCEPT !.curr_loop_guard_stack = Append(@, loop_guard)]
      s4         == new_block(s3)
      for_block  == s4.current_id
      s5         == add_exit(s4, loop_guard, for_block,
                             IF hasText THEN cond_text ELSE None)
      s6         == new_block(s5)
      after_for  == s6.current_id
      s7         == add_exit(s6, loop_guard, after_for,
                             IF hasText THEN invert(cond_text) ELSE None)
      s8         == [s7 EXCEPT !.after_loop_block_stack = Append(@, after_for),
                               !.current_block = for_block]
      s9         == visit_block(s8, node.body)
      s10        == link_if_open(s9, loop_guard)
  IN  [s10 EXCEPT !.current_block = after_for,
                  !.after_loop_block_stack = Pop(@),
                  !.curr_loop_guard_stack = Pop(@)]

\* The loop over the case groups of visit_switch_expression, from group i on.
visit_groups(st, groups, i, dispatch, after_switch) ==
  IF i > Len(groups) THEN st
  ELSE
    LET group      == groups[i]
        s1         == new_block(st)
        case_block == s1.current_id
        label      == IF group.hasCond THEN get_text(cond_of(group)) ELSE None
        s2         == add_exit(s1, dispatch, case_block, label)
        s3         == IF i < Len(groups)
                      THEN LET n1 == new_block(s2)
                           IN  add_exit(n1, dispatch, n1.current_id, None)
                      ELSE add_exit(s2, dispatch, after_switch, None)
        next_dispatch == IF i < Len(groups) THEN s3.current_id ELSE after_switch
        s4         == [s3 EXCEPT !.current_block = case_block]
        s5         == visit_block(s4, group.body)
        s6         == link_if_open(s5, after_switch)
        s7         == noted_group(s6, after_switch, case_block, s4, s5)
    IN  visit_groups(s7, groups, i + 1, next_dispatch, after_switch)

visit_switch_expression(st, node) ==
  LET s1           == add_statement(st, st.current_block, node)
      s2           == new_block(s1)
      after_switch == s2.current_id
      s3           == [s2 EXCEPT !.after_switch_block_stack = Append(@, after_switch),
                                 !.switches = Append(@,
                                    [node |-> node, block |-> st.current_block,
                                     after_switch |-> after_switch,
                                     groups |-> <<>>])]
      s4           == visit_groups(s3, node.body, 1, s3.current_block, after_switch)
  IN  [s4 EXCEPT !.current_block = after_switch,
                 !.after_switch_block_stack = Pop(@)]

\* visit: dispatch on the node type.
visit(st, node) ==
  CASE node.type = "if_statement"       -> visit_if_statement(st, node)
    [] node.type = "while_statement"    -> visit_while_statement(st, node)
    [] node.type = "for_statement"      -> visit_for_statement(st, node)
    [] node.type = "switch_expression"  -> visit_switch_expression(st, node)
    [] node.type = "return_statement"   -> visit_return_statement(st, node)
    [] node.type = "break_statement"    ->
         noted(st, node, visit_break_statement(st, node))
    [] node.type = "continue_statement" ->
         noted(st, node, visit_continue_statement(st, node))
    [] OTHER                            -> visit_expression_statement(st, node)

----------------------------------------------------------------------------
(* clean_cfg.  The visited list is shared by the whole recursion, so every  *)
(* step returns the pair [st, visited].                                     *)

RECURSIVE splice_exits(_, _, _, _), splice_preds(_, _, _, _)

\* Mutant of splice_exits: the old exit link stays in its target's predecessors.
splice_exits_stale(st, pred, exits, j) ==
  IF j > Len(exits) THEN st
  ELSE
    LET exit == exits[j]
        s1   == add_exit(st, st.links[pred].source, st.links[exit].target,
                         st.links[exit].exitcase)
        s3   == [s1 EXCEPT !.spliced = Append(@, <<pred, exit, Len(s1.links)>>)]
    IN  splice_exits(s3, pred, exits, j + 1)

\* The inner loop of clean_cfg for one predecessor link pred, over the
\* snapshot `exits` of block.exits from position j on.
splice_exits(st, pred, exits, j) ==
  IF j > Len(exits) THEN st
  ELSE
    LET exit == exits[j]
        tgt  == st.links[exit].target
        s1   == add_exit(st, st.links[pred].source, tgt, st.links[exit].exitcase)
        s2   == IF In(exit, s1.blocks[tgt].predecessors)
                THEN [s1 EXCEPT !.blocks[tgt].predecessors = Remove(@, exit)]
                ELSE s1
        s3   == [s2 EXCEPT !.spliced = Append(@, <<pred, exit, Len(s1.links)>>)]
    IN  splice_exits(s3, pred, exits, j + 1)

\* Mutant of splice_preds: the predecessor link stays in its source's exits.
splice_preds_stale(st, block, preds, i) ==
  IF i > Len(preds) THEN st
  ELSE splice_preds(splice_exits(st, preds[i], st.blocks[block].exits, 1),
                    block, preds, i + 1)

\* The outer loop of clean_cfg over the snapshot `preds` of block.predecessors.
splice_preds(st, block, preds, i) ==
  IF i > Len(preds) THEN st
  ELSE
    LET pred == preds[i]
        src  == st.links[pred].source
        s1   == splice_exits(st, pred, st.blocks[block].exits, 1)
        s2   == IF In(pred, s1.blocks[src].exits)
                THEN [s1 EXCEPT !.blocks[src].exits = Remove(@, pred)]
                ELSE s1
    IN  splice_preds(s2, block, preds, i + 1)

RECURSIVE clean_cfg(_, _, _), clean_exits(_, _, _, _)

\* "for exit in list(block.exits): self.clean_cfg(exit.target, visited)"
clean_exits(st, visited, exits, j) ==
  IF j > Len(exits) THEN [st |-> st, visited |-> visited]
  ELSE LET r == clean_cfg(st, st.links[exits[j]].target, visited)
       IN  clean_exits(r.st, r.visited, exits, j + 1)

\* Mutant of clean_cfg: an empty block is cut out of the graph without links
\* from its predecessors to its successors.
clean_cfg_unspliced(st, block, visited) ==
  IF In(block, visited) THEN [st |-> st, visited |-> visited]
  ELSE
    LET v1 == Append(visited, block) IN
    IF is_empty(st.blocks[block])
    THEN LET r == clean_exits(st, v1, st.blocks[block].exits, 1)
         IN  [st |-> [r.st EXCEPT !.blocks[block].predecessors = <<>>,
                                  !.blocks[block].exits = <<>>],
              visited |-> r.visited]
    ELSE clean_exits(st, v1, st.blocks[block].exits, 1)

\* Mutant of clean_cfg: the successors of an empty block are not visited.
clean_cfg_shallow(st, block, visited) ==
  IF In(block, visited) THEN [st |-> st, visited |-> visited]
  ELSE
    LET v1 == Append(visited, block) IN
    IF is_empty(st.blocks[block])
    THEN LET s1 == splice_preds(st, block, st.blocks[block].predecessors, 1)
         IN  [st |-> [s1 EXCEPT !.blocks[block].predecessors = <<>>,
                                !.blocks[block].exits = <<>>],
              visited |-> v1]
    ELSE clean_exits(st, v1, st.blocks[block].exits, 1)

clean_cfg(st, block, visited) ==
  IF In(block, visited) THEN [st |-> st, visited |-> visited]
  ELSE
    LET v1 == Append(visited, block) IN
    IF is_empty(st.blocks[block])
    THEN LET s1 == splice_preds(st, block, st.blocks[block].predecessors, 1)
             r  == clean_exits(s1, v1, s1.blocks[block].exits, 1)
         IN  [st |-> [r.st EXCEPT !.blocks[block].predecessors = <<>>,
                                  !.blocks[block].exits = <<>>],
              visited |-> r.visited]
    ELSE clean_exits(st, v1, st.blocks[block].exits, 1)

----------------------------------------------------------------------------
(* CFGBuilder.build.                                                        *)

\* Mutant of raw_build: the new CFG starts with the final blocks of the old one.
raw_build_keep_finalblocks(st, tree) ==
  LET s1 == [st EXCEPT !.blocks = <<>>, !.links = <<>>,
                       !.entryblock = 0, !.current_id = 0, !.spliced = <<>>,
                       !.jumps = <<>>, !.switches = <<>>]
      s2 == new_block(s1)
      s3 == [s2 EXCEPT !.current_block = s2.current_id,
                       !.entryblock = s2.current_id]
  IN  visit_block(s3, tree)

\* build up to, not including, the call of clean_cfg.
raw_build(st, body) ==
  LET s1 == [st EXCEPT !.blocks = <<>>, !.links = <<>>, !.finalblocks = <<>>,
                       !.entryblock = 0, !.current_id = 0, !.spliced = <<>>,
                       !.jumps = <<>>, !.switches = <<>>]
      s2 == new_block(s1)
      s3 == [s2 EXCEPT !.current_block = s2.current_id,
                       !.entryblock = s2.current_id]
  IN  visit_block(s3, body)

build(st, body) ==
  LET s1 == raw_build(st, body)
  IN  clean_cfg(s1, s1.entryblock, <<>>).st

----------------------------------------------------------------------------
(* _enumerate_paths (python/dfg_builder.py), run on a CFG: the fields       *)
(* entryblock, finalblocks, blocks and links of a builder state.            *)

\* Mutant of may_enter: only the block the walk is in is not entered again.
may_enter_but_last(target, current) == target # Last(current)

\* "if exit_.target not in current"
may_enter(target, current) == ~In(target, current)

\* Mutant of is_terminal: the walk stops at blocks without exits only.
is_terminal_exitless(cfg, block) == Len(cfg.blocks[block].exits) = 0

\* "if block in cfg.finalblocks or not block.exits"
is_terminal(cfg, block) ==
  In(block, cfg.finalblocks) \/ Len(cfg.blocks[block].exits) = 0

RECURSIVE dfs(_, _, _, _), dfs_exits(_, _, _, _, _)

\* "for exit_ in block.exits: if exit_.target not in current: dfs(...)",
\* from position j of block.exits on; current already holds block.
dfs_exits(cfg, block, current, paths, j) ==
  IF j > Len(cfg.blocks[block].exits) THEN paths
  ELSE LET target == cfg.links[cfg.blocks[block].exits[j]].target
           p1     == IF may_enter(target, current)
                     THEN dfs(cfg, target, current, paths)
                     ELSE paths
       IN  dfs_exits(cfg, block, current, p1, j + 1)

\* Mutant of dfs: a path is also emitted where no exit leads to a new block.
dfs_deadend(cfg, block, current, paths) ==
  LET cur == Append(current, block) IN
  IF \/ In(block, cfg.finalblocks)
     \/ \A i \in 1..Len(cfg.blocks[block].exits) :
          In(cfg.links[cfg.blocks[block].exits[i]].target, cur)
  THEN Append(paths, cur)
  ELSE dfs_exits(cfg, block, cur, paths, 1)

\* dfs(block, current): the value of paths when the call returns (current is
\* popped before it returns, so the caller's list is unchanged).
dfs(cfg, block, current, paths) ==
  LET cur == Append(current, block) IN
  IF is_terminal(cfg, block)
  THEN Append(paths, cur)
  ELSE dfs_exits(cfg, block, cur, paths, 1)

enumerate_paths(cfg) == dfs(cfg, cfg.entryblock, <<>>, <<>>)

----------------------------------------------------------------------------
(* The state machine.                                                       *)

VARIABLES
  body,                     \* the method body given to build
  blocks, links,            \* the heap of Block and Link objects
  entryblock, finalblocks,  \* self.cfg
  current_block, current_id, separate_node_blocks,
  after_loop_block_stack, after_switch_block_stack, curr_loop_guard_stack,
  spliced,                  \* history of the splices of clean_cfg
  jumps,                    \* history of the visits of break and continue statements
  switches,                 \* history of the visits of switches and their case groups
  paths,                    \* the list paths of _enumerate_paths
  current,                  \* the list current of a running _enumerate_paths
  stack,                    \* the frames of dfs of a running _enumerate_paths
  start_occurrences,        \* DFGBuilder.start_occurrences
  names,                    \* DFGBuilder.names
  seeded,                   \* the list results of DFGBuilder.build_paths before its last walk
  results,                  \* the list results of DFGBuilder.build_paths
  unique,                   \* the list DFGBuilder.build_paths returned
  dfg,                      \* the mapping DFGBuilder._build of python/dfg_builder.py returned
  src,                      \* the source text given to build_from_src
  earlier,                  \* the bodies and CFGs of the earlier calls of build
  remapped_succs, start_node, end_node, max_depth,
                            \* the parameters of find_paths_between_nodes
  queue, visited_paths,     \* locals of a running find_paths_between_nodes
  to_visit, visited_set,    \* locals to_visit and visited of a running CFG.__iter__
  yielded,                  \* the blocks CFG.__iter__ has yielded so far
  occurrences,              \* what the variable extractors returned for a statement
  params,                   \* the parameters of the Python function: line and names
  dfg_nodes,                \* DFGBuilder.nodes of staticfg/dfg_builder.py
  enclosing,                \* the constructs around the statement being visited
  pc                        \* what has been called so far

builder_vars == <<blocks, links, entryblock, finalblocks, current_block, current_id,
                  separate_node_blocks, after_loop_block_stack,
                  after_switch_block_stack, curr_loop_guard_stack, spliced, jumps,
                  switches>>

dfs_vars == <<current, stack>>

dfg_vars == <<start_occurrences, names, seeded, results, unique, dfg>>

search_vars == <<remapped_succs, start_node, end_node, max_depth, queue,
                 visited_paths>>

iter_vars == <<to_visit, visited_set, yielded>>

py_vars == <<occurrences, params, dfg_nodes, enclosing>>

vars == <<body, builder_vars, paths, dfs_vars, dfg_vars, src, earlier,
          search_vars, iter_vars, py_vars, pc>>

\* The builder state as one record.
State ==
  [blocks |-> blocks, links |-> links, entryblock |-> entryblock,
   finalblocks |-> finalblocks, current_block |-> current_block,
   current_id |-> current_id, separate_node_blocks |-> separate_node_blocks,
   after_loop_block_stack |-> after_loop_block_stack,
   after_switch_block_stack |-> after_switch_block_stack,
   curr_loop_guard_stack |-> curr_loop_guard_stack, spliced |-> spliced,
   jumps |-> jumps, switches |-> switches]

\* The next builder state is st.
Becomes(st) ==
  /\ blocks' = st.blocks
  /\ links' = st.links
  /\ entryblock' = st.entryblock
  /\ finalblocks' = st.finalblocks
  /\ current_block' = st.current_block
  /\ current_id' = st.current_id
  /\ separate_node_blocks' = st.separate_node_blocks
  /\ after_loop_block_stack' = st.after_loop_block_stack
  /\ after_switch_block_stack' = st.after_switch_block_stack
  /\ curr_loop_guard_stack' = st.curr_loop_guard_stack
  /\ spliced' = st.spliced
  /\ jumps' = st.jumps
  /\ switches' = st.switches

\* The builder and its CFG are st.
Is(st) ==
  /\ blocks = st.blocks
  /\ links = st.links
  /\ entryblock = st.entryblock
  /\ finalblocks = st.finalblocks
  /\ current_block = st.current_block
  /\ current_id = st.current_id
  /\ separate_node_blocks = st.separate_node_blocks
  /\ after_loop_block_stack = st.after_loop_block_stack
  /\ after_switch_block_stack = st.after_switch_block_stack
  /\ curr_loop_guard_stack = st.curr_loop_guard_stack
  /\ spliced = st.spliced
  /\ jumps = st.jumps
  /\ switches = st.switches

\* names=None: occurrences of every variable are kept.
AllNames == [all |-> TRUE, only |-> {}]

\* find_paths_between_nodes has not been called.
NoSearch ==
  /\ remapped_succs = <<>>
  /\ start_node = 0
  /\ end_node = 0
  /\ max_depth = 0
  /\ queue = <<>>
  /\ visited_paths = {}

\* No extractor has been called, there is no Python function, and no
\* statement is being visited on its own.
NoPy ==
  /\ occurrences = <<>>
  /\ params = [line |-> 0, names |-> <<>>]
  /\ dfg_nodes = <<>>
  /\ enclosing = <<>>

\* The CFG is not being iterated.
NoIter ==
  /\ to_visit = <<>>
  /\ visited_set = {}
  /\ yielded = <<>>

\* No DFGBuilder has been made.
NoDFGBuilder ==
  /\ start_occurrences = <<>>
  /\ names = AllNames
  /\ seeded = <<>>
  /\ results = <<>>
  /\ unique = <<>>
  /\ dfg = <<>>

\* A builder has been constructed; it is about to be given a method body.
Init ==
  /\ \E n \in 0..MaxNodes :
       \/ n = 0 /\ body = <<>>
       \/ \E k \in 1..n : \E t \in Trees(k, 1), f \in Forests(n - k, 1 + k) :
            body = <<t>> \o f
  /\ \E separate \in BOOLEAN : Is(NewBuilder(separate))
  /\ paths = <<>>
  /\ current = <<>>
  /\ stack = <<>>
  /\ NoDFGBuilder
  /\ earlier = <<>>
  /\ NoPy
  /\ NoSearch
  /\ NoIter
  /\ src = <<>>
  /\ pc = "constructed"

\* CFGBuilder.build
Build ==
  /\ pc = "constructed"
  /\ \E st \in {build(State, body)} : Becomes(st)
  /\ pc' = "built"
  /\ UNCHANGED <<body, paths, dfs_vars, dfg_vars, src, earlier, search_vars,
                 iter_vars, py_vars>>

\* A second call clean_cfg(cfg.entryblock) on the CFG that build returned.
CleanAgain ==
  /\ pc = "built"
  /\ \E st \in {clean_cfg(State, entryblock, <<>>).st} : Becomes(st)
  /\ pc' = "cleaned"
  /\ UNCHANGED <<body, paths, dfs_vars, dfg_vars, src, earlier, search_vars,
                 iter_vars, py_vars>>

\* _enumerate_paths(cfg) on the CFG that build returned.
EnumeratePaths ==
  /\ pc = "built"
  /\ paths' = enumerate_paths(State)
  /\ pc' = "enumerated"
  /\ UNCHANGED <<body, builder_vars, dfs_vars, dfg_vars, src, earlier,
                 search_vars, iter_vars, py_vars>>

Next == Build \/ CleanAgain \/ EnumeratePaths

Spec == Init /\ [][Next]_vars

\* The deepest nesting of the bodies NestBodies.
MaxNesting == 3

RECURSIVE NestBodies(_, _)

\* Method bodies that are a break or continue statement, alone or after an
\* expression statement, inside exactly d constructs nested in one another
\* (a switch with its one case group is one construct), from row `row` on.
NestBodies(d, row) ==
  IF d = 0
  THEN UNION { { <<Node(t, row, FALSE, <<>>, FALSE, <<>>)>>,
                 <<Node("expression_statement", row, FALSE, <<>>, FALSE, <<>>),
                   Node(t, row + 1, FALSE, <<>>, FALSE, <<>>)>> }
               : t \in {"break_statement", "continue_statement"} }
  ELSE UNION { { <<Node("if_statement", row, TRUE, b, FALSE, <<>>)>>,
                 <<Node("while_statement", row, TRUE, b, FALSE, <<>>)>>,
                 <<Node("for_statement", row, TRUE, b, FALSE, <<>>)>>,
                 <<Node("switch_expression", row, FALSE,
                        <<Node("switch_block_statement_group", row, TRUE, b,
                               FALSE, <<>>)>>, FALSE, <<>>)>> }
               : b \in NestBodies(d - 1, row + 1) }

\* A builder has been constructed; it is about to be given a body of NestBodies.
InitNest ==
  /\ \E d \in 0..MaxNesting : body \in NestBodies(d, 1)
  /\ \E separate \in BOOLEAN : Is(NewBuilder(separate))
  /\ paths = <<>>
  /\ current = <<>>
  /\ stack = <<>>
  /\ NoDFGBuilder
  /\ earlier = <<>>
  /\ NoPy
  /\ NoSearch
  /\ NoIter
  /\ src = <<>>
  /\ pc = "constructed"

NextNest == Build

SpecNest == InitNest /\ [][NextNest]_vars

----------------------------------------------------------------------------
(* _enumerate_paths step by step, on any CFG of up to NumBlocks blocks.     *)
(* A frame of dfs is [block, at, j]: at is "enter" before current.append,   *)
(* "loop" while the for loop over block.exits is at position j, and "exit"  *)
(* before current.pop().                                                    *)

\* The number of blocks of the CFGs _enumerate_paths is run on.
NumBlocks == 3

\* The largest number of links of these CFGs.
MaxLinks == NumBlocks

\* The deepest nesting of dfs calls that is followed.
MaxDepth == NumBlocks + 1

\* The exits of blocks first..NumBlocks, as lists of target blocks, with at most
\* budget links in all.
RECURSIVE ExitLists(_, _)
ExitLists(first, budget) ==
  IF first > NumBlocks THEN {<<>>}
  ELSE UNION { { <<e>> \o rest : e \in [1..k -> 1..NumBlocks],
                                 rest \in ExitLists(first + 1, budget - k) }
               : k \in 0..budget }

\* The heap with the links targets[b] added to block b, from block b on.
RECURSIVE link_all(_, _, _, _)
link_all(st, targets, b, j) ==
  IF b > Len(targets) THEN st
  ELSE IF j > Len(targets[b]) THEN link_all(st, targets, b + 1, 1)
  ELSE link_all(add_exit(st, b, targets[b][j], None), targets, b, j + 1)

\* The elements of a set of blocks in increasing order.
RECURSIVE sorted(_)
sorted(S) ==
  IF S = {} THEN <<>>
  ELSE LET m == CHOOSE x \in S : \A y \in S : x <= y
       IN  <<m>> \o sorted(S \ {m})

\* The statement of block b of these CFGs, as python/dfg_builder.py reads it: an
\* ast.Assign on line b + 1 (line 1 is the def line) with ast.Name nodes for
\* its target and its value.
Assign(b) == [type |-> "Assign", lineno |-> b + 1,
              target |-> VarA(b), value |-> VarB(b)]

\* The list vars_to_track given to _build.
vars_to_track == <<"c", "x", "y">>

RECURSIVE without_duplicates(_, _, _)

\* "for name in sorted(names, ...): if name not in seen: unique.append(name)"
without_duplicates(nms, uniq, i) ==
  IF i > Len(nms) THEN uniq
  ELSE without_duplicates(nms, IF In(nms[i], uniq) THEN uniq
                               ELSE Append(uniq, nms[i]), i + 1)

RECURSIVE Visitor_visit(_), Visitor_visit_all(_, _)

\* Visitor().visit(child) for children[i], children[i+1], ...
Visitor_visit_all(children, i) ==
  IF i > Len(children) THEN <<>>
  ELSE Visitor_visit(children[i]) \o Visitor_visit_all(children, i + 1)

\* What Visitor().visit(node) of _collect_names appends to names.  A statement
\* is read as the Python statement of its kind on line row + 1 (line 1 is the
\* def line): an expression statement is the ast.Assign "VarA = VarB", a return
\* is "return VarA", an if / while has the test "VarB", a for (of either kind)
\* is "for VarA in VarB", a switch is "match VarB" with capture patterns, which
\* hold no ast.Name.
Visitor_visit(node) ==
  CASE node.type = "Assign" ->
         << <<node.target, node.lineno>>, <<node.value, node.lineno>> >>
    [] node.type = "expression_statement" ->
         << <<VarA(node.row), node.row + 1>>, <<VarB(node.row), node.row + 1>> >>
    [] node.type = "return_statement" -> << <<VarA(node.row), node.row + 1>> >>
    [] node.type = "if_statement" -> << <<VarB(node.row), node.row + 1>> >>
    [] node.type = "while_statement" ->
         << <<VarB(node.row), node.row + 1>> >> \o Visitor_visit_all(node.body, 1)
    [] node.type \in {"for_statement", "enhanced_for_statement"} ->
         << <<VarA(node.row), node.row + 1>>, <<VarB(node.row), node.row + 1>> >>
         \o Visitor_visit_all(node.body, 1)
    [] node.type = "switch_expression" -> << <<VarB(node.row), node.row + 1>> >>
    [] OTHER -> <<>>

RECURSIVE sorted_by_line(_, _, _)

\* sorted(names, key=lambda x: x[1]): a stable sort, by insertion of nms[i],
\* nms[i+1], ... into done.
sorted_by_line(nms, done, i) ==
  IF i > Len(nms) THEN done
  ELSE LET k == Cardinality({j \in 1..Len(done) : done[j][2] <= nms[i][2]})
       IN  sorted_by_line(nms,
                          SubSeq(done, 1, k) \o <<nms[i]>> \o SubSeq(done, k + 1, Len(done)),
                          i + 1)

\* _collect_names: the names of the node sorted by line, without duplicates,
\* restricted to the tracked names.
collect_names(node, tracked) ==
  SelectSeq(without_duplicates(sorted_by_line(Visitor_visit(node), <<>>, 1), <<>>, 1),
            LAMBDA n : In(n[1], tracked))

RECURSIVE py_block_occurrences(_, _, _)

\* _block_occurrences of python/dfg_builder.py, from statement i on.
py_block_occurrences(statements, tracked, i) ==
  IF i > Len(statements) THEN <<>>
  ELSE collect_names(statements[i], tracked)
       \o py_block_occurrences(statements, tracked, i + 1)

\* A dict is the list of its items in insertion order.
dict_has(d, key) == \E i \in 1..Len(d) : d[i].key = key

dict_get(d, key) == d[CHOOSE i \in 1..Len(d) : d[i].key = key].val

\* d.setdefault(key, []).append(x), unless skip holds of the list found.
dict_append(d, key, x) ==
  IF dict_has(d, key)
  THEN [i \in 1..Len(d) |-> IF d[i].key = key
                            THEN [key |-> key, val |-> Append(d[i].val, x)]
                            ELSE d[i]]
  ELSE Append(d, [key |-> key, val |-> <<x>>])

RECURSIVE per_var_occs(_, _, _), per_var_blocks(_, _, _, _)

\* Lines 163-167 of _build for the occurrences occs[i], occs[i+1], ...
per_var_occs(per_var, occs, i) ==
  IF i > Len(occs) THEN per_var
  ELSE LET var  == occs[i][1]
           line == occs[i][2]
           skip == /\ dict_has(per_var, var)
                   /\ Len(dict_get(per_var, var)) > 0
                   /\ Last(dict_get(per_var, var))[2] = line
       IN  per_var_occs(IF skip THEN per_var
                        ELSE dict_append(per_var, var, occs[i]),
                        occs, i + 1)

\* "for block in path" of _build.
per_var_blocks(cfg, per_var, path, i) ==
  IF i > Len(path) THEN per_var
  ELSE per_var_blocks(cfg,
                      per_var_occs(per_var,
                                   py_block_occurrences(cfg.blocks[path[i]].statements,
                                                        vars_to_track, 1), 1),
                      path, i + 1)

RECURSIVE join(_, _)

\* " -> ".join(f"({v}, {ln})" for v, ln in occs), from occs[i] on.
join(occs, i) ==
  IF i > Len(occs) THEN ""
  ELSE "(" \o occs[i][1] \o ", " \o ToString(occs[i][2]) \o ")"
       \o (IF i < Len(occs) THEN " -> " ELSE "") \o join(occs, i + 1)

\* Mutant of store_path: a text the variable already has is not stored again.
store_path_once(d, var, path_txt) ==
  IF dict_has(d, var) /\ In(path_txt, dict_get(d, var)) THEN d
  ELSE dict_append(d, var, path_txt)

\* "dfg.setdefault(var, []).append(path_txt)"
store_path(d, var, path_txt) == dict_append(d, var, path_txt)

RECURSIVE store_paths(_, _, _), build_dfg(_, _, _, _)

\* "for var, occs in per_var.items()" of _build.
store_paths(d, per_var, i) ==
  IF i > Len(per_var) THEN d
  ELSE store_paths(store_path(d, per_var[i].key, join(per_var[i].val, 1)),
                   per_var, i + 1)

\* "for path in paths" of _build.
build_dfg(cfg, d, pths, i) ==
  IF i > Len(pths) THEN d
  ELSE build_dfg(cfg, store_paths(d, per_var_blocks(cfg, <<>>, pths[i], 1), 1),
                 pths, i + 1)

\* A CFG made with Block, Link and CFG directly; block 1 is the entry block.
InitDfs ==
  /\ body = <<>>
  /\ \E targets \in ExitLists(1, MaxLinks), finals \in SUBSET (1..NumBlocks) :
       LET st == link_all([NewBuilder(FALSE) EXCEPT
                             !.blocks = [b \in 1..NumBlocks |->
                                         [Block EXCEPT !.statements = <<Assign(b)>>]],
                             !.current_id = NumBlocks,
                             !.entryblock = 1,
                             !.finalblocks = sorted(finals)],
                          targets, 1, 1)
       IN  Is(st)
  /\ paths = <<>>
  /\ current = <<>>
  /\ stack = << [block |-> entryblock, at |-> "enter", j |-> 1] >>
  /\ NoDFGBuilder
  /\ earlier = <<>>
  /\ NoPy
  /\ NoSearch
  /\ NoIter
  /\ src = <<>>
  /\ pc = "dfs"

Top == stack[Len(stack)]

\* current.append(block), then the test of line 79.
DfsEnter ==
  /\ pc = "dfs" /\ Top.at = "enter"
  /\ current' = Append(current, Top.block)
  /\ IF is_terminal(State, Top.block)
     THEN /\ paths' = Append(paths, current')
          /\ stack' = [stack EXCEPT ![Len(stack)].at = "exit"]
     ELSE /\ paths' = paths
          /\ stack' = [stack EXCEPT ![Len(stack)].at = "loop"]
  /\ UNCHANGED <<body, builder_vars, dfg_vars, pc, src, earlier, search_vars,
                 iter_vars, py_vars>>

\* One round of "for exit_ in block.exits".
DfsLoop ==
  /\ pc = "dfs" /\ Top.at = "loop" /\ Top.j <= Len(blocks[Top.block].exits)
  /\ LET target == links[blocks[Top.block].exits[Top.j]].target
         next   == [stack EXCEPT ![Len(stack)].j = @ + 1]
     IN  IF may_enter(target, current)
         THEN /\ Len(stack) < MaxDepth
              /\ stack' = Append(next, [block |-> target, at |-> "enter", j |-> 1])
         ELSE stack' = next
  /\ UNCHANGED <<body, builder_vars, paths, current, dfg_vars, pc, src,
                 earlier, search_vars, iter_vars, py_vars>>

\* The for loop is over.
DfsLoopEnd ==
  /\ pc = "dfs" /\ Top.at = "loop" /\ Top.j > Len(blocks[Top.block].exits)
  /\ stack' = [stack EXCEPT ![Len(stack)].at = "exit"]
  /\ UNCHANGED <<body, builder_vars, paths, current, dfg_vars, pc, src,
                 earlier, search_vars, iter_vars, py_vars>>

\* current.pop() and the return of dfs; the outermost return ends _enumerate_paths.
DfsReturn ==
  /\ pc = "dfs" /\ Top.at = "exit"
  /\ current' = Pop(current)
  /\ stack' = Pop(stack)
  /\ pc' = IF Len(stack) = 1 THEN "returned" ELSE "dfs"
  /\ UNCHANGED <<body, builder_vars, paths, dfg_vars, src, earlier,
                 search_vars, iter_vars, py_vars>>

\* DFGBuilder._build of python/dfg_builder.py, from the return of its call of
\* _enumerate_paths to its own return.
BuildDfg ==
  /\ pc = "returned"
  /\ dfg' = build_dfg(State, <<>>, paths, 1)
  /\ pc' = "dfg_built"
  /\ UNCHANGED <<body, builder_vars, paths, dfs_vars, start_occurrences, names,
                 seeded, results, unique, src, earlier, search_vars, iter_vars,
                 py_vars>>

\* A step of the running _enumerate_paths.
DfsStep == DfsEnter \/ DfsLoop \/ DfsLoopEnd \/ DfsReturn

NextDfs == DfsStep \/ BuildDfg

\* The interpreter runs the call of _enumerate_paths to its end: a step of it
\* that can be taken is taken.
SpecDfs == InitDfs /\ [][NextDfs]_vars /\ WF_vars(DfsStep)

----------------------------------------------------------------------------
(* java/dfg_builder.py: variable occurrences and the path assembler.        *)

\* The tokens of node.text that are not words.
Punctuation == {"=", ";", "(", ")", "{", "}", "!", ":"}

\* _VarVisitor.keywords
keywords ==
  {"if", "else", "while", "for", "switch", "case", "default",
   "return", "break", "continue", "new", "this", "super",
   "true", "false", "null", "public", "private", "protected",
   "static", "final", "void", "int", "double", "float", "boolean",
   "char", "byte", "short", "long", "String"}

RECURSIVE text(_), text_all(_, _)

\* The texts of nodes[i], nodes[i+1], ... one after the other.
text_all(nodes, i) ==
  IF i > Len(nodes) THEN <<>> ELSE text(nodes[i]) \o text_all(nodes, i + 1)

\* node.text: the source text the node spans, nested statements included.
text(node) ==
  CASE node.type = "expression_statement" ->
         <<VarA(node.row), "=", VarB(node.row), ";">>
    [] node.type = "return_statement" -> <<"return", VarA(node.row), ";">>
    [] node.type = "break_statement" -> <<"break", ";">>
    [] node.type = "continue_statement" -> <<"continue", ";">>
    [] node.type = "if_statement" ->
         <<"if">> \o cond_of(node) \o <<"{">> \o text_all(node.body, 1) \o <<"}">>
         \o (IF node.hasAlt
             THEN <<"else", "{">> \o text_all(node.alt, 1) \o <<"}">>
             ELSE <<>>)
    [] node.type = "while_statement" ->
         <<"while">> \o cond_of(node) \o <<"{">> \o text_all(node.body, 1) \o <<"}">>
    [] node.type = "for_statement" ->
         <<"for", "(", ";">> \o (IF node.hasCond THEN cond_of(node) ELSE <<>>)
         \o <<";", ")", "{">> \o text_all(node.body, 1) \o <<"}">>
    [] node.type = "enhanced_for_statement" ->
         <<"for", "(", "int", VarA(node.row), ":", VarB(node.row), ")", "{">>
         \o text_all(node.body, 1) \o <<"}">>
    [] node.type = "switch_expression" ->
         <<"switch", "(", VarB(node.row), ")", "{">> \o text_all(node.body, 1)
         \o <<"}">>
    [] node.type = "switch_block_statement_group" ->
         cond_of(node) \o text_all(node.body, 1)

\* var_pattern.findall(text): the words of the text, in order.
var_pattern(txt) == SelectSeq(txt, LAMBDA t : t \notin Punctuation)

\* _var_occurrences of a node with the given text starting on the given row:
\* every word that is no keyword, with the 1-based line of the node's start.
var_occurrences(txt, row) ==
  LET found == SelectSeq(var_pattern(txt), LAMBDA t : t \notin keywords)
  IN  [i \in 1..Len(found) |-> <<found[i], row + 1>>]

\* _stmt_occurrences
stmt_occurrences(stmt) ==
  IF stmt.type \in {"if_statement", "while_statement", "for_statement"}
  THEN IF stmt.hasCond THEN var_occurrences(cond_of(stmt), stmt.row) ELSE <<>>
  ELSE var_occurrences(text(stmt), stmt.row)

\* "if self.names is None or name in self.names"
is_kept(nms, name) == nms.all \/ name \in nms.only

RECURSIVE add_occurrences(_, _, _, _)

\* The inner loop of _block_occurrences: new[i], new[i+1], ... are appended to
\* occs when their name is kept and they are not in occs yet.
add_occurrences(occs, new, nms, i) ==
  IF i > Len(new) THEN occs
  ELSE add_occurrences(IF is_kept(nms, new[i][1]) /\ ~In(new[i], occs)
                       THEN Append(occs, new[i]) ELSE occs,
                       new, nms, i + 1)

RECURSIVE stmts_occurrences(_, _, _, _)

\* The outer loop of _block_occurrences.
stmts_occurrences(occs, statements, nms, i) ==
  IF i > Len(statements) THEN occs
  ELSE stmts_occurrences(add_occurrences(occs, stmt_occurrences(statements[i]), nms, 1),
                         statements, nms, i + 1)

\* DFGBuilder._block_occurrences
block_occurrences(cfg, nms, block) ==
  stmts_occurrences(<<>>, cfg.blocks[block].statements, nms, 1)

\* Mutant of is_tracked: every occurrence of the block goes into the path.
is_tracked_always(path, name) == TRUE

\* "if not path or name == path[0][0]"
is_tracked(path, name) == Len(path) = 0 \/ name = path[1][1]

RECURSIVE DFGBuilder_dfs(_, _, _, _, _, _), DFGBuilder_dfs_exits(_, _, _, _, _, _, _)

\* The loop over block.exits in DFGBuilder._dfs, from exit j on.
DFGBuilder_dfs_exits(cfg, nms, block, path, visited, res, j) ==
  IF j > Len(cfg.blocks[block].exits) THEN res
  ELSE LET target == cfg.links[cfg.blocks[block].exits[j]].target
           r1     == DFGBuilder_dfs(cfg, nms, target, path, visited, res)
       IN  DFGBuilder_dfs_exits(cfg, nms, block, path, visited, r1, j + 1)

\* DFGBuilder._dfs; the value is the list results after the call.
DFGBuilder_dfs(cfg, nms, block, path, visited, res) ==
  IF block \in visited THEN res
  ELSE LET block_occs   == block_occurrences(cfg, nms, block)
           updated_path == path \o SelectSeq(block_occs,
                                             LAMBDA o : is_tracked(path, o[1]))
       IN  IF In(block, cfg.finalblocks)
           THEN IF Len(updated_path) > 0 THEN Append(res, updated_path) ELSE res
           ELSE DFGBuilder_dfs_exits(cfg, nms, block, updated_path,
                                     visited \cup {block}, res, 1)

RECURSIVE var_names(_, _, _)

\* The keys of var_paths in insertion order.
var_names(start, keys, i) ==
  IF i > Len(start) THEN keys
  ELSE var_names(start, IF In(start[i][1], keys) THEN keys
                        ELSE Append(keys, start[i][1]), i + 1)

\* var_paths[name]
var_path(start, name) == SelectSeq(start, LAMBDA o : o[1] = name)

RECURSIVE seeded_walks(_, _, _, _, _, _)

\* "for _, occs in var_paths.items(): self._dfs(self.cfg.entryblock, occs, ...)"
seeded_walks(cfg, nms, start, keys, res, i) ==
  IF i > Len(keys) THEN res
  ELSE seeded_walks(cfg, nms, start, keys,
                    DFGBuilder_dfs(cfg, nms, cfg.entryblock,
                                   var_path(start, keys[i]), {}, res),
                    i + 1)

\* Mutant of keep_unique: every path found is returned.
keep_every(res, uniq, i) == res

RECURSIVE keep_unique(_, _, _)

\* The last loop of build_paths.
keep_unique(res, uniq, i) ==
  IF i > Len(res) THEN uniq
  ELSE keep_unique(res, IF Len(res[i]) > 0 /\ ~In(res[i], uniq)
                        THEN Append(uniq, res[i]) ELSE uniq, i + 1)

\* DFGBuilder.build_paths; seeded is the list results when the walks started
\* with the start occurrences are over, results the list when all walks are.
build_paths(cfg, start, nms) ==
  LET walked(res1) ==
        LET returned(res2) ==
              [seeded |-> res1, results |-> res2,
               unique |-> keep_unique(res2, <<>>, 1)]
        IN  returned(DFGBuilder_dfs(cfg, nms, cfg.entryblock, <<>>, {}, res1))
  IN  walked(seeded_walks(cfg, nms, start, var_names(start, <<>>, 1), <<>>, 1))

\* The arguments a DFGBuilder is made with: start occurrences (line 1 is the
\* method header) and names.
DFGBuilders ==
  { [start |-> << <<"x", 1>> >>, names |-> AllNames],
    [start |-> << <<"c", 1>> >>, names |-> AllNames],
    [start |-> << <<"x", 1>>, <<"c", 1>> >>, names |-> AllNames],
    [start |-> << <<"x", 1>> >>, names |-> [all |-> FALSE, only |-> {"c", "y"}]] }

\* build has returned the CFG of a method body.
InitDfg ==
  /\ \E n \in 0..MaxNodes :
       \/ n = 0 /\ body = <<>>
       \/ \E k \in 1..n : \E t \in Trees(k, 1), f \in Forests(n - k, 1 + k) :
            body = <<t>> \o f
  /\ \E separate \in BOOLEAN :
       \E st \in {build(NewBuilder(separate), body)} : Is(st)
  /\ paths = <<>>
  /\ current = <<>>
  /\ stack = <<>>
  /\ NoDFGBuilder
  /\ earlier = <<>>
  /\ NoPy
  /\ NoSearch
  /\ NoIter
  /\ src = <<>>
  /\ pc = "built"

\* DFGBuilder(cfg, start_occurrences, names).build_paths()
BuildPaths ==
  /\ pc = "built"
  /\ \E args \in DFGBuilders :
       \E r \in {build_paths(State, args.start, args.names)} :
       /\ start_occurrences' = args.start
       /\ names' = args.names
       /\ seeded' = r.seeded
       /\ results' = r.results
       /\ unique' = r.unique
  /\ pc' = "assembled"
  /\ UNCHANGED <<body, builder_vars, paths, dfs_vars, dfg, src, earlier,
                 search_vars, iter_vars, py_vars>>

NextDfg == BuildPaths

SpecDfg == InitDfg /\ [][NextDfg]_vars

----------------------------------------------------------------------------
(* build_from_src of a builder whose parser is None: _build_simple.         *)
(* A source text is the list of its characters.                             *)

\* The largest number of lines of the source texts given to build_from_src.
MaxLines == 3

\* s.find(ch) and s.rfind(ch): the 0-based position, -1 when there is none.
find(s, ch) ==
  IF \E i \in 1..Len(s) : s[i] = ch
  THEN (CHOOSE i \in 1..Len(s) : s[i] = ch /\ \A k \in 1..(i - 1) : s[k] # ch) - 1
  ELSE -1

rfind(s, ch) ==
  IF \E i \in 1..Len(s) : s[i] = ch
  THEN (CHOOSE i \in 1..Len(s) : s[i] = ch /\ \A k \in (i + 1)..Len(s) : s[k] # ch) - 1
  ELSE -1

\* s[start:end] for start >= 0; a negative end counts from the end of s.
slice(s, start, end) ==
  LET e == IF end < 0 THEN (IF Len(s) + end < 0 THEN 0 ELSE Len(s) + end)
           ELSE IF end > Len(s) THEN Len(s) ELSE end
  IN  IF start >= e THEN <<>> ELSE SubSeq(s, start + 1, e)

RECURSIVE splitlines(_)

\* Mutant of splitlines: the text is taken as one line.
splitlines_whole(s) == IF Len(s) = 0 THEN <<>> ELSE <<s>>

\* str.splitlines()
splitlines(s) ==
  IF Len(s) = 0 THEN <<>>
  ELSE IF find(s, "\n") = -1 THEN <<s>>
  ELSE <<slice(s, 0, find(s, "\n"))>>
       \o splitlines(slice(s, find(s, "\n") + 1, Len(s)))

\* _FakeNode(text, line)
FakeNode(txt, line) == [type |-> "statement", row |-> line, text |-> txt]

RECURSIVE nonblank_lines(_, _), simple_blocks(_, _, _, _)

\* The list lines of _build_simple: (ln, stripped) for the non-blank lines,
\* ln counting from 0.
nonblank_lines(all, i) ==
  IF i > Len(all) THEN <<>>
  ELSE (IF Len(strip(all[i])) > 0 THEN << <<i - 1, strip(all[i])>> >> ELSE <<>>)
       \o nonblank_lines(all, i + 1)

\* The second loop of _build_simple, from lines[idx] on (idx counting from 1);
\* prev is 0 for None.
simple_blocks(st, lines, idx, prev) ==
  IF idx > Len(lines)
  THEN IF prev # 0 THEN [st EXCEPT !.finalblocks = Append(@, prev)] ELSE st
  ELSE LET s1    == new_block(st)
           block == s1.current_id
           s2    == add_statement(s1, block, FakeNode(lines[idx][2], lines[idx][1]))
           s3    == IF idx = 1 THEN [s2 EXCEPT !.entryblock = block] ELSE s2
           s4    == IF prev # 0 THEN add_exit(s3, prev, block, None) ELSE s3
       IN  simple_blocks(s4, lines, idx + 1, block)

\* CFGBuilder._build_simple
build_simple(st, source) ==
  LET s1   == [st EXCEPT !.blocks = <<>>, !.links = <<>>, !.finalblocks = <<>>,
                         !.entryblock = 0, !.current_id = 0, !.spliced = <<>>,
                       !.jumps = <<>>, !.switches = <<>>]
      text_body == slice(source, find(source, "{") + 1, rfind(source, "}"))
  IN  simple_blocks(s1, nonblank_lines(splitlines(text_body), 1), 1, 0)

\* The texts of single lines of the sources.
LineTexts ==
  { <<>>, <<" ">>, <<"a", ";">>, <<" ", "b", ";", " ">>, <<"}">> }

RECURSIVE LineLists(_), join_lines(_, _)

\* All lists of exactly n line texts.
LineLists(n) ==
  IF n = 0 THEN {<<>>}
  ELSE { <<l>> \o ls : l \in LineTexts, ls \in LineLists(n - 1) }

\* "\n".join(ls), from ls[i] on.
join_lines(ls, i) ==
  IF i > Len(ls) THEN <<>>
  ELSE ls[i] \o (IF i < Len(ls) THEN <<"\n">> ELSE <<>>) \o join_lines(ls, i + 1)

\* A builder without parser has been constructed; it is about to be given a
\* source text: a method with its braces, or lines without any header.
InitSimple ==
  /\ \E n \in 0..MaxLines : \E ls \in LineLists(n) :
       \/ src = <<"m", "(", ")", "{">> \o join_lines(ls, 1) \o <<"}">>
       \/ src = join_lines(ls, 1)
  /\ body = <<>>
  /\ \E separate \in BOOLEAN : Is(NewBuilder(separate))
  /\ paths = <<>>
  /\ current = <<>>
  /\ stack = <<>>
  /\ NoDFGBuilder
  /\ earlier = <<>>
  /\ NoPy
  /\ NoSearch
  /\ NoIter
  /\ pc = "no_parser"

\* build_from_src when self.parser is None
BuildFromSrc ==
  /\ pc = "no_parser"
  /\ \E st \in {build_simple(State, src)} : Becomes(st)
  /\ pc' = "built_simple"
  /\ UNCHANGED <<body, paths, dfs_vars, dfg_vars, src, earlier, search_vars,
                 iter_vars, py_vars>>

NextSimple == BuildFromSrc

SpecSimple == InitSimple /\ [][NextSimple]_vars

----------------------------------------------------------------------------
(* Notions the properties are stated with.                                  *)

\* The blocks reachable from block b by following exits, b included.
RECURSIVE ReachFrom(_, _, _)
ReachFrom(bs, ls, seen) ==
  LET more == {ls[l].target : l \in UNION {Range(bs[b].exits) : b \in seen}}
  IN  IF more \subseteq seen THEN seen ELSE ReachFrom(bs, ls, seen \cup more)

Reachable == ReachFrom(blocks, links, {entryblock})

\* The block whose statements hold the AST node.
BlockOf(node) == CHOOSE b \in 1..Len(blocks) : In(node, blocks[b].statements)

\* The links that occur in some block's exits or predecessors.
LiveLinks ==
  {l \in 1..Len(links) :
     \E b \in 1..Len(blocks) : In(l, blocks[b].exits) \/ In(l, blocks[b].predecessors)}

\* build has returned (and possibly more has been called since).
Built == pc # "constructed"

\* The body has no statement but break / continue outside any loop or switch.
OnlyJumps ==
  \A i \in 1..Len(body) : body[i].type \in {"break_statement", "continue_statement"}

\* if (cond) { return ...; } else { return ...; }
IsBranchScenario ==
  /\ Len(body) = 1
  /\ body[1].type = "if_statement"
  /\ body[1].hasAlt
  /\ Len(body[1].body) = 1 /\ body[1].body[1].type = "return_statement"
  /\ Len(body[1].alt) = 1 /\ body[1].alt[1].type = "return_statement"

\* while (cond) { statement; } return ...;
IsLoopScenario ==
  /\ Len(body) = 2
  /\ body[1].type = "while_statement"
  /\ Len(body[1].body) = 1 /\ body[1].body[1].type = "expression_statement"
  /\ body[2].type = "return_statement"

----------------------------------------------------------------------------
(* Properties.                                                              *)

\* C1: after build, every link that occurs in some exits or predecessors list
\* occurs exactly once in the exits of its source, in no other block's exits,
\* exactly once in the predecessors of its target and in no other block's
\* predecessors.
C1_LinksBidirectional ==
  Built =>
    \A l \in LiveLinks : \A b \in 1..Len(blocks) :
      /\ Count(blocks[b].exits, l) = (IF b = links[l].source THEN 1 ELSE 0)
      /\ Count(blocks[b].predecessors, l) = (IF b = links[l].target THEN 1 ELSE 0)

\* C1 witness: build has spliced an empty block out and links are in use.
C1_Witness == pc = "built" /\ Len(spliced) > 0 /\ LiveLinks # {}

\* C2 as claimed: after build every block reachable from the entry block, the
\* entry block included, has at least one statement.
C2_NoEmptyBlock ==
  pc = "built" => \A b \in Reachable : ~is_empty(blocks[b])

\* C2 as amended: after build every block reachable from the entry block other
\* than the entry block has at least one statement; the entry block is empty
\* exactly when the body has no statement but unscoped break / continue, and
\* then it has no exits.
C2_NoEmptyBlockButEntry ==
  pc = "built" =>
    /\ \A b \in Reachable \ {entryblock} : ~is_empty(blocks[b])
    /\ is_empty(blocks[entryblock]) <=> OnlyJumps
    /\ is_empty(blocks[entryblock]) => Len(blocks[entryblock].exits) = 0

\* C2 witness: a body ending in a loop whose empty after-loop block was cut off.
C2_Witness ==
  /\ pc = "built"
  /\ Len(body) > 0 /\ Last(body).type = "while_statement"
  /\ \E b \in 1..Len(blocks) : b \notin Reachable /\ is_empty(blocks[b])
  /\ \A b \in Reachable : ~is_empty(blocks[b])

\* C3: a second clean_cfg(entryblock) on the CFG build returned creates no link,
\* removes no link and changes no block (nor the entry or the final blocks).
C3_CleanAgainChangesNothing ==
  [][pc' = "cleaned" =>
       /\ blocks' = blocks
       /\ links' = links
       /\ spliced' = spliced
       /\ entryblock' = entryblock
       /\ finalblocks' = finalblocks]_vars

\* C3 witness: clean_cfg has run a second time on a CFG whose build spliced
\* empty blocks out.
C3_Witness == pc = "cleaned" /\ Len(spliced) > 0

\* C4 as claimed: every link clean_cfg creates for a predecessor link P with a
\* branch label carries P's label.
C4_SpliceKeepsIncomingLabel ==
  \A i \in 1..Len(spliced) :
    links[spliced[i][1]].exitcase # None
      => links[spliced[i][3]].exitcase = links[spliced[i][1]].exitcase

\* C5: for if (c) { return } else { return } the CFG has two final blocks, the
\* entry block holds the if node and has two exits, labelled (c) into the
\* consequence's return block and !((c)) into the alternative's, and neither
\* final block has an exit.
C5_BranchScenario ==
  (pc = "built" /\ IsBranchScenario) =>
    LET cons == BlockOf(body[1].body[1])
        alt  == BlockOf(body[1].alt[1])
        ex   == blocks[entryblock].exits
    IN  /\ Len(finalblocks) = 2
        /\ Range(finalblocks) = {cons, alt}
        /\ cons # alt
        /\ blocks[entryblock].statements = <<body[1]>>
        /\ Len(ex) = 2
        /\ \E i, j \in 1..2 :
             /\ i # j
             /\ links[ex[i]].target = cons
             /\ links[ex[i]].exitcase = <<"(", "c", ")">>
             /\ links[ex[j]].target = alt
             /\ links[ex[j]].exitcase = <<"!", "(", "(", "c", ")", ")">>
        /\ Len(blocks[cons].exits) = 0
        /\ Len(blocks[alt].exits) = 0

C5_Witness == pc = "built" /\ IsBranchScenario

\* C6: for while (c) { s; } return; the loop-body block has a link back to the
\* loop guard, there is exactly one final block, and _enumerate_paths returns
\* exactly one path, from the entry block to that final block.
C6_LoopScenario ==
  (pc = "enumerated" /\ IsLoopScenario) =>
    LET guard    == BlockOf(body[1])
        loopbody == BlockOf(body[1].body[1])
    IN  /\ \E i \in 1..Len(blocks[loopbody].exits) :
             links[blocks[loopbody].exits[i]].target = guard
        /\ \E i \in 1..Len(blocks[guard].exits) :
             links[blocks[guard].exits[i]].target = loopbody
        /\ Len(finalblocks) = 1
        /\ finalblocks[1] = BlockOf(body[2])
        /\ Len(paths) = 1
        /\ Head(paths[1]) = entryblock
        /\ Last(paths[1]) = finalblocks[1]

C6_Witness == pc = "enumerated" /\ IsLoopScenario

\* C7 as claimed: in the loop scenario the single path holds the loop-body block
\* exactly once, between the loop guard and the final block.
C7_LoopBodyOnPathOnce ==
  (pc = "enumerated" /\ IsLoopScenario) =>
    LET loopbody == BlockOf(body[1].body[1])
        p        == paths[1]
    IN  /\ Len(paths) = 1
        /\ Count(p, loopbody) = 1
        /\ \E i, j, k \in 1..Len(p) :
             /\ i < j /\ j < k
             /\ p[i] = BlockOf(body[1]) /\ p[j] = loopbody /\ p[k] = BlockOf(body[2])

\* C7 as amended: in the loop scenario the single path is the loop guard followed
\* by the final block; the loop-body block is not on it.
C7_LoopBodyNotOnPath ==
  (pc = "enumerated" /\ IsLoopScenario) =>
    /\ paths = << <<BlockOf(body[1]), BlockOf(body[2])>> >>
    /\ \A i \in 1..Len(paths) : ~In(BlockOf(body[1].body[1]), paths[i])

C7_Witness ==
  /\ pc = "enumerated" /\ IsLoopScenario
  /\ Len(paths) = 1
  /\ BlockOf(body[1].body[1]) \in Reachable

\* The step-by-step _enumerate_paths returns what enumerate_paths computes.
DfsAgrees == pc = "returned" => paths = enumerate_paths(State)

\* No block occurs twice in the list.
NoRepeat(p) == \A i, j \in 1..Len(p) : p[i] = p[j] => i = j

\* Some block has a link to itself, and two links join the same two blocks.
HasSelfLoopAndParallelLinks ==
  /\ \E l \in 1..Len(links) : links[l].source = links[l].target
  /\ \E l, m \in 1..Len(links) :
       l # m /\ links[l].source = links[m].source /\ links[l].target = links[m].target

\* C8: _enumerate_paths returns on every CFG, cyclic ones included, and neither
\* the current path nor a returned path ever holds a block twice.
C8_Terminates ==
  /\ <>(pc = "returned")
  /\ [](NoRepeat(current) /\ \A i \in 1..Len(paths) : NoRepeat(paths[i]))

\* C8 witness: _enumerate_paths has returned a path of several blocks on a CFG
\* with a self-loop and parallel links.
C8_Witness ==
  /\ pc = "returned"
  /\ HasSelfLoopAndParallelLinks
  /\ \E i \in 1..Len(paths) : Len(paths[i]) > 1

\* C9: every returned path starts with the entry block, follows a link from each
\* block to the next, ends in a final block or a block without exits, and has
\* no final block before its last block.
C9_PathsWellFormed ==
  \A i \in 1..Len(paths) :
    LET p == paths[i] IN
    /\ Len(p) > 0
    /\ p[1] = entryblock
    /\ \A k \in 1..(Len(p) - 1) :
         /\ \E e \in 1..Len(blocks[p[k]].exits) :
              links[blocks[p[k]].exits[e]].target = p[k + 1]
         /\ ~In(p[k], finalblocks)
    /\ In(Last(p), finalblocks) \/ Len(blocks[Last(p)].exits) = 0

\* C9 witness: two paths have been returned, one ending in a final block that
\* has exits and one ending in a block without exits that is not final.
C9_Witness ==
  /\ pc = "returned"
  /\ \E i \in 1..Len(paths) :
       /\ Len(paths[i]) > 1
       /\ In(Last(paths[i]), finalblocks)
       /\ Len(blocks[Last(paths[i])].exits) > 0
  /\ \E i \in 1..Len(paths) :
       /\ Len(paths[i]) > 1
       /\ ~In(Last(paths[i]), finalblocks)

RECURSIVE RoutesFrom(_)

\* The ways to go on from a list of distinct blocks to a final block along
\* links, through blocks that are not final and not yet in the list.
RoutesFrom(prefix) ==
  IF In(Last(prefix), finalblocks) THEN {prefix}
  ELSE UNION { RoutesFrom(Append(prefix, t))
               : t \in { links[blocks[Last(prefix)].exits[e]].target
                         : e \in 1..Len(blocks[Last(prefix)].exits) } \ Range(prefix) }

\* The routes from the entry block to a final block.
Routes == RoutesFrom(<<entryblock>>)

RECURSIVE OccurrencesAlong(_, _, _)

\* The occurrences of variable v in blocks route[i], route[i+1], ... in turn.
OccurrencesAlong(v, route, i) ==
  IF i > Len(route) THEN <<>>
  ELSE SelectSeq(block_occurrences(State, names, route[i]), LAMBDA o : o[1] = v)
       \o OccurrencesAlong(v, route, i + 1)

\* C10: with one start occurrence (v, l0), every path of the walk started with
\* it is that occurrence followed by the occurrences of v in the blocks of one
\* route from the entry block to a final block, in route order, and holds no
\* occurrence of another variable.
C10_SeededPathFollowsRoute ==
  (pc = "assembled" /\ Len(start_occurrences) = 1) =>
    \A i \in 1..Len(seeded) :
      /\ \E route \in Routes :
           seeded[i] = start_occurrences
                       \o OccurrencesAlong(start_occurrences[1][1], route, 1)
      /\ \A k \in 1..Len(seeded[i]) : seeded[i][k][1] = start_occurrences[1][1]

\* C10 witness: started with (x,1) on a route that touches x on lines 3 and 4
\* and y on line 3, the walk gives exactly the path (x,1), (x,3), (x,4).
C10_Witness ==
  /\ pc = "assembled"
  /\ start_occurrences = << <<"x", 1>> >>
  /\ seeded = << << <<"x", 1>>, <<"x", 3>>, <<"x", 4>> >> >>
  /\ \E route \in Routes : \E i \in 1..Len(route) :
       In(<<"y", 3>>, block_occurrences(State, names, route[i]))

\* C11: every path build_paths returns holds occurrences of one variable only.
C11_OneVariablePerPath ==
  pc = "assembled" =>
    \A i \in 1..Len(unique) :
      \A k \in 1..Len(unique[i]) : unique[i][k][1] = unique[i][1][1]

\* The position at which path p was first appended to results.
FirstProduced(p) == CHOOSE k \in 1..Len(results) :
                      results[k] = p /\ \A m \in 1..(k - 1) : results[m] # p

C13_NoPathTwicePerVariable ==
  pc = "dfg_built" =>
    \A v \in 1..Len(dfg) :
      \A i, j \in 1..Len(dfg[v].val) : dfg[v].val[i] = dfg[v].val[j] => i = j

\* The positions of src between its first "{" and its last "}" (from the start
\* when there is no "{", up to the last character when there is no "}").
BodyPositions ==
  { i \in 1..Len(src) : find(src, "{") + 1 < i
                        /\ i <= (IF rfind(src, "}") = -1 THEN Len(src) - 1
                                 ELSE rfind(src, "}")) }

\* The line of the body a position is on: the number of line ends before it.
LineAt(i) == Cardinality({ k \in BodyPositions : k < i /\ src[k] = "\n" })

\* The lines of the body with a character that is no blank.
NonBlankLines == { LineAt(i) : i \in { k \in BodyPositions : src[k] \notin {"\n", " "} } }

\* C14: without parser, a body with n >= 1 non-blank lines gives blocks 1..n
\* with one statement each, one unconditional link from each block to the next
\* and no other link; block 1 is the entry block and block n the only final one.
C14_FallbackIsAChain ==
  (pc = "built_simple" /\ NonBlankLines # {}) =>
    LET n == Cardinality(NonBlankLines) IN
    /\ Len(blocks) = n /\ current_id = n
    /\ \A b \in 1..n : Len(blocks[b].statements) = 1
    /\ \A b \in 1..(n - 1) :
         /\ Len(blocks[b].exits) = 1
         /\ links[blocks[b].exits[1]] = Link(b, b + 1, None)
    /\ Len(blocks[n].exits) = 0
    /\ Len(links) = n - 1
    /\ entryblock = 1
    /\ finalblocks = <<n>>

\* C14 witness: a body of three non-blank lines has been built into three
\* blocks, the third one final.
C14_Witness ==
  /\ pc = "built_simple"
  /\ Cardinality(NonBlankLines) = 3
  /\ Len(blocks) = 3
  /\ finalblocks = <<3>>

\* Between the states before and after of an entry of jumps exactly one link
\* was added, an unconditional one from the current block to target, and
\* nothing else changed.
AddsOneLinkTo(e, target) ==
  LET cur == e.before.current_block
      new == Len(e.before.links) + 1
  IN  /\ e.after.links = Append(e.before.links, Link(cur, target, None))
      /\ Len(e.after.blocks) = Len(e.before.blocks)
      /\ \A b \in 1..Len(e.before.blocks) :
           /\ e.after.blocks[b].statements = e.before.blocks[b].statements
           /\ e.after.blocks[b].exits =
                IF b = cur THEN Append(e.before.blocks[b].exits, new)
                ELSE e.before.blocks[b].exits
           /\ e.after.blocks[b].predecessors =
                IF b = target THEN Append(e.before.blocks[b].predecessors, new)
                ELSE e.before.blocks[b].predecessors
      /\ [e.after EXCEPT !.links = e.before.links, !.blocks = e.before.blocks]
           = e.before

\* C15: a break statement adds one unconditional link from the current block to
\* the top of after_switch_block_stack when that stack is not empty, else to
\* the top of after_loop_block_stack when that one is not empty; it adds no
\* statement and leaves the current block as it is.
C15_BreakLinksToTopOfStack ==
  \A i \in 1..Len(jumps) :
    LET e == jumps[i] IN
    e.node.type = "break_statement" =>
      /\ Len(e.before.after_switch_block_stack) > 0
           => AddsOneLinkTo(e, Last(e.before.after_switch_block_stack))
      /\ (Len(e.before.after_switch_block_stack) = 0
          /\ Len(e.before.after_loop_block_stack) > 0)
           => AddsOneLinkTo(e, Last(e.before.after_loop_block_stack))

\* C15 witness: a break statement was visited inside a switch that is inside a
\* loop, with a statement already in the current block.
C15_Witness ==
  /\ pc = "built"
  /\ \E i \in 1..Len(jumps) :
       /\ jumps[i].node.type = "break_statement"
       /\ Len(jumps[i].before.after_switch_block_stack) > 0
       /\ Len(jumps[i].before.after_loop_block_stack) > 0
       /\ ~is_empty(jumps[i].before.blocks[jumps[i].before.current_block])

\* C16: a break statement visited while both break stacks are empty, and a
\* continue statement visited while the loop-guard stack is empty, leave the
\* blocks, the links, the current block, the final blocks, the id counter and
\* the three stacks as they were.
C16_UnscopedJumpChangesNothing ==
  \A i \in 1..Len(jumps) :
    LET e == jumps[i] IN
    /\ (e.node.type = "break_statement"
        /\ Len(e.before.after_switch_block_stack) = 0
        /\ Len(e.before.after_loop_block_stack) = 0) => e.after = e.before
    /\ (e.node.type = "continue_statement"
        /\ Len(e.before.curr_loop_guard_stack) = 0) => e.after = e.before

\* C16 witness: a continue statement was visited outside every loop but inside
\* a switch, with a statement already in the current block.
C16_Witness ==
  /\ pc = "built"
  /\ \E i \in 1..Len(jumps) :
       /\ jumps[i].node.type = "continue_statement"
       /\ Len(jumps[i].before.curr_loop_guard_stack) = 0
       /\ Len(jumps[i].before.after_switch_block_stack) > 0
       /\ ~is_empty(jumps[i].before.blocks[jumps[i].before.current_block])

----------------------------------------------------------------------------
(* build on method bodies around one switch with up to MaxGroups case       *)
(* groups.                                                                  *)

\* The most case groups of the switch.
MaxGroups == 2

\* The statement lists of a case group whose label is on row `row`.
CaseBodies(row) ==
  { <<>>,
    <<Node("expression_statement", row + 1, FALSE, <<>>, FALSE, <<>>)>>,
    <<Node("expression_statement", row + 1, FALSE, <<>>, FALSE, <<>>),
      Node("break_statement", row + 2, FALSE, <<>>, FALSE, <<>>)>>,
    <<Node("break_statement", row + 1, FALSE, <<>>, FALSE, <<>>)>>,
    <<Node("continue_statement", row + 1, FALSE, <<>>, FALSE, <<>>)>>,
    <<Node("return_statement", row + 1, FALSE, <<>>, FALSE, <<>>)>>,
    <<Node("if_statement", row + 1, TRUE,
           <<Node("break_statement", row + 2, FALSE, <<>>, FALSE, <<>>)>>,
           FALSE, <<>>)>> }

RECURSIVE CaseGroups(_, _)

\* The lists of exactly n case groups, three rows each, from row `row` on.
CaseGroups(n, row) ==
  IF n = 0 THEN {<<>>}
  ELSE { <<Node("switch_block_statement_group", row, TRUE, b, FALSE, <<>>)>> \o g
         : b \in CaseBodies(row), g \in CaseGroups(n - 1, row + 3) }

\* The statement lists that follow the switch, from row `row` on.
AfterSwitch(row) ==
  { <<>>,
    <<Node("expression_statement", row, FALSE, <<>>, FALSE, <<>>)>>,
    <<Node("expression_statement", row, FALSE, <<>>, FALSE, <<>>),
      Node("expression_statement", row + 1, FALSE, <<>>, FALSE, <<>>)>>,
    <<Node("return_statement", row, FALSE, <<>>, FALSE, <<>>)>>,
    <<Node("break_statement", row, FALSE, <<>>, FALSE, <<>>),
      Node("expression_statement", row + 1, FALSE, <<>>, FALSE, <<>>)>>,
    <<Node("while_statement", row, TRUE,
           <<Node("expression_statement", row + 1, FALSE, <<>>, FALSE, <<>>)>>,
           FALSE, <<>>)>> }

\* A switch on row `row` with n case groups and the statements after it.
SwitchScopes(n, row) ==
  { <<Node("switch_expression", row, FALSE, g, FALSE, <<>>)>> \o f
    : g \in CaseGroups(n, row + 1), f \in AfterSwitch(row + 1 + 3 * n) }

\* The method bodies: the switch first in the body, after an expression
\* statement, or in the body of a while loop.
SwitchBodies(n) ==
  SwitchScopes(n, 1)
  \cup { <<Node("expression_statement", 1, FALSE, <<>>, FALSE, <<>>)>> \o s
         : s \in SwitchScopes(n, 2) }
  \cup { <<Node("while_statement", 1, TRUE, s, FALSE, <<>>)>>
         : s \in SwitchScopes(n, 2) }

\* A builder has been constructed; it is about to be given a body of SwitchBodies.
InitSwitch ==
  /\ \E n \in 0..MaxGroups : body \in SwitchBodies(n)
  /\ \E separate \in BOOLEAN : Is(NewBuilder(separate))
  /\ paths = <<>>
  /\ current = <<>>
  /\ stack = <<>>
  /\ NoDFGBuilder
  /\ earlier = <<>>
  /\ NoPy
  /\ NoSearch
  /\ NoIter
  /\ src = <<>>
  /\ pc = "constructed"

NextSwitch == Build

SpecSwitch == InitSwitch /\ [][NextSwitch]_vars

----------------------------------------------------------------------------
(* Properties of the switch.                                                *)

RECURSIVE ScopesOf(_)

\* The statement lists of the AST below a statement list, itself included.
ScopesOf(list) ==
  {list} \cup UNION { ScopesOf(list[i].body) \cup ScopesOf(list[i].alt)
                      : i \in 1..Len(list) }

\* The statements that follow a node in its own statement list.
FollowingInScope(node) ==
  LET s == CHOOSE s \in ScopesOf(body) : In(node, s)
      i == CHOOSE i \in 1..Len(s) : s[i] = node
  IN  SubSeq(s, i + 1, Len(s))

\* No link ever leads from the case block of group i, or from a block created
\* for the statements of group i, to the case block of group i + 1.
NoFallthrough(sw) ==
  \A i \in 1..(Len(sw.groups) - 1) : \A l \in 1..Len(links) :
    ~ /\ links[l].source \in {sw.groups[i].case_block}
                               \cup (sw.groups[i].first..sw.groups[i].last)
      /\ links[l].target = sw.groups[i + 1].case_block

\* A group whose statements ended in a block with no exits got a link from
\* that block to the after-switch block.
OpenGroupsLinked(sw) ==
  \A i \in 1..Len(sw.groups) : sw.groups[i].open => sw.groups[i].linked

\* The after-switch block is reachable from the block that holds the switch.
AfterSwitchReachable(sw) ==
  sw.after_switch \in ReachFrom(blocks, links, {sw.block})

\* C17: in the CFG build returns, for every switch visited: no block of case
\* group i has a link to the case block of group i + 1; every case group that
\* ends in a block with no exits is linked to the after-switch block; and the
\* after-switch block, when statements follow the switch and went into it, is
\* reachable from the block that holds the switch.
C17_SwitchWithoutFallthrough ==
  pc = "built" =>
    \A k \in 1..Len(switches) :
      /\ NoFallthrough(switches[k])
      /\ OpenGroupsLinked(switches[k])
      /\ ~is_empty(blocks[switches[k].after_switch])
           => AfterSwitchReachable(switches[k])

\* The first two parts of C17 alone.
C17_GroupsOnly ==
  pc = "built" =>
    \A k \in 1..Len(switches) :
      /\ NoFallthrough(switches[k])
      /\ OpenGroupsLinked(switches[k])

\* The third part of C17 for the switches that have a case group.
C17_ReachableWithGroups ==
  pc = "built" =>
    \A k \in 1..Len(switches) :
      (Len(switches[k].groups) > 0 /\ ~is_empty(blocks[switches[k].after_switch]))
        => AfterSwitchReachable(switches[k])

\* The after-switch block holds exactly the statements that follow the switch.
C17_HoldsExactlyWhatFollows ==
  pc = "built" =>
    \A k \in 1..Len(switches) :
      blocks[switches[k].after_switch].statements
        = FollowingInScope(switches[k].node)

----------------------------------------------------------------------------
(* build called a second time on the same CFGBuilder.                       *)

\* The bodies given to the second call of build (besides the first body again).
NextBodies ==
  { <<>>,
    <<Node("break_statement", 1, FALSE, <<>>, FALSE, <<>>)>>,
    <<Node("continue_statement", 1, FALSE, <<>>, FALSE, <<>>)>>,
    <<Node("return_statement", 1, FALSE, <<>>, FALSE, <<>>)>>,
    <<Node("while_statement", 1, TRUE,
           <<Node("break_statement", 2, FALSE, <<>>, FALSE, <<>>)>>, FALSE, <<>>),
      Node("return_statement", 3, FALSE, <<>>, FALSE, <<>>)>>,
    <<Node("switch_expression", 1, FALSE,
           <<Node("switch_block_statement_group", 2, TRUE,
                  <<Node("break_statement", 3, FALSE, <<>>, FALSE, <<>>)>>,
                  FALSE, <<>>)>>, FALSE, <<>>),
      Node("expression_statement", 4, FALSE, <<>>, FALSE, <<>>)>>,
    <<Node("if_statement", 1, TRUE,
           <<Node("return_statement", 2, FALSE, <<>>, FALSE, <<>>)>>, FALSE, <<>>),
      Node("return_statement", 3, FALSE, <<>>, FALSE, <<>>)>> }

\* A builder has been constructed; it is about to be given a first body of up
\* to MaxNodes - 1 nodes.
InitReuse ==
  /\ \E n \in 0..(MaxNodes - 1) : body \in Forests(n, 1)
  /\ \E separate \in BOOLEAN : Is(NewBuilder(separate))
  /\ paths = <<>>
  /\ current = <<>>
  /\ stack = <<>>
  /\ NoDFGBuilder
  /\ earlier = <<>>
  /\ NoPy
  /\ NoSearch
  /\ NoIter
  /\ src = <<>>
  /\ pc = "constructed"

\* CFGBuilder.build, called on the builder whose first build has returned.
BuildAgain ==
  /\ pc = "built"
  /\ \E tree \in NextBodies \cup {body} :
       /\ body' = tree
       /\ \E st \in {build(State, tree)} : Becomes(st)
  /\ earlier' = Append(earlier, [body |-> body, cfg |-> State])
  /\ pc' = "rebuilt"
  /\ UNCHANGED <<paths, dfs_vars, dfg_vars, src, search_vars, iter_vars,
                 py_vars>>

NextReuse == Build \/ BuildAgain

SpecReuse == InitReuse /\ [][NextReuse]_vars

----------------------------------------------------------------------------
(* Properties of the second build.                                          *)

\* What a builder made for the occasion returns for the body.
Fresh == build(NewBuilder(separate_node_blocks), body)

\* The ids a builder state holds: the counter, the blocks the CFG and the
\* builder refer to, and the ends of every link.
Ids(st) ==
  <<st.current_id, Len(st.blocks), st.entryblock, st.finalblocks, st.current_block,
    [l \in 1..Len(st.links) |-> <<st.links[l].source, st.links[l].target>>]>>

\* The context stacks of a builder state.
Stacks(st) ==
  <<st.after_loop_block_stack, st.after_switch_block_stack,
    st.curr_loop_guard_stack>>

\* C18 as stated: after a second build on a builder whose first build
\* completed, the block ids or the builder's context stacks differ from those
\* of a builder made for the second body.
C18_RebuildDiffersFromFresh ==
  pc = "rebuilt" => (Ids(State) # Ids(Fresh) \/ Stacks(State) # Stacks(Fresh))

\* C18, amended: after a second build on a builder whose first build completed,
\* the CFG, the block ids and the builder's fields are those of a builder made
\* for the second body, and the context stacks are empty.
C18_RebuildEqualsFresh ==
  pc = "rebuilt" =>
    /\ State = Fresh
    /\ Stacks(State) = <<<<>>, <<>>, <<>>>>

\* A second build after a first build that made more blocks, ended in a final
\* block and went through a loop or switch, on another body with a break or
\* continue inside a loop or switch.
C18_Witness ==
  /\ pc = "rebuilt"
  /\ Len(earlier) = 1
  /\ earlier[1].body # body
  /\ earlier[1].cfg.current_id > current_id
  /\ Len(earlier[1].cfg.finalblocks) > 0
  /\ \E i \in 1..Len(earlier[1].body) :
       earlier[1].body[i].type \in {"while_statement", "for_statement",
                                    "switch_expression"}
  /\ \E i \in 1..Len(jumps) :
       Len(jumps[i].before.after_loop_block_stack)
         + Len(jumps[i].before.after_switch_block_stack) > 0

----------------------------------------------------------------------------
(* DataFlowAnalyzer.find_paths_between_nodes (utils/print_analysis.py) step *)
(* by step, on any successor graph of up to NumBlocks nodes and MaxLinks    *)
(* edges.  remapped_succs is a dict: a function from its keys to lists of   *)
(* pairs <<neighbor, label>>.                                               *)

\* The dict for the successor lists targets; when sparse, a node without
\* successors is not a key.
succs_dict(targets, sparse) ==
  [n \in {m \in 1..NumBlocks : ~sparse \/ Len(targets[m]) > 0} |->
     [j \in 1..Len(targets[n]) |-> <<targets[n][j], "">>]]

\* Mutant of too_long: no path is too long.
too_long_never(path, bound) == FALSE

\* "if len(path) > max_depth"
too_long(path, bound) == Len(path) > bound

\* "for neighbor, _ in remapped_succs[current_node]", from the j-th pair on:
\* the queue with (neighbor, path + [neighbor]) appended for every neighbor
\* that is not in path.
RECURSIVE append_neighbors(_, _, _, _)
append_neighbors(q, pairs, path, j) ==
  IF j > Len(pairs) THEN q
  ELSE LET neighbor == pairs[j][1] IN
       append_neighbors(IF ~In(neighbor, path)
                        THEN Append(q, <<neighbor, Append(path, neighbor)>>)
                        ELSE q,
                        pairs, path, j + 1)

\* find_paths_between_nodes is about to be called, from node 1 to itself or to
\* the last node (every graph is drawn, so any other end node is a renaming).
InitSearch ==
  /\ body = <<>>
  /\ Is(NewBuilder(FALSE))
  /\ paths = <<>>
  /\ current = <<>>
  /\ stack = <<>>
  /\ NoDFGBuilder
  /\ earlier = <<>>
  /\ NoPy
  /\ \E targets \in ExitLists(1, MaxLinks), sparse \in BOOLEAN :
       remapped_succs = succs_dict(targets, sparse)
  /\ start_node = 1
  /\ end_node \in {start_node, NumBlocks}
  /\ max_depth \in 0..(NumBlocks + 1)
  /\ queue = <<>>
  /\ visited_paths = {}
  /\ NoIter
  /\ src = <<>>
  /\ pc = "search"

\* Lines 90-91: start_node == end_node.
FindPathsSame ==
  /\ pc = "search"
  /\ start_node = end_node
  /\ paths' = <<<<start_node>>>>
  /\ pc' = "searched"
  /\ UNCHANGED <<body, builder_vars, dfs_vars, dfg_vars, src, earlier,
                 search_vars, iter_vars, py_vars>>

\* Lines 93-95: the queue starts with the start node.
FindPathsStart ==
  /\ pc = "search"
  /\ start_node # end_node
  /\ paths' = <<>>
  /\ queue' = << <<start_node, <<start_node>>>> >>
  /\ visited_paths' = {}
  /\ pc' = "search_loop"
  /\ UNCHANGED <<body, builder_vars, dfs_vars, dfg_vars, src, earlier,
                 remapped_succs, start_node, end_node, max_depth, iter_vars,
                 py_vars>>

\* One round of "while queue" (lines 98-115).
FindPathsStep ==
  /\ pc = "search_loop"
  /\ queue # <<>>
  /\ LET current_node == Head(queue)[1]
         path         == Head(queue)[2]
     IN  IF too_long(path, max_depth)
         THEN /\ queue' = Tail(queue)
              /\ UNCHANGED <<paths, visited_paths>>
         ELSE IF current_node = end_node
         THEN /\ queue' = Tail(queue)
              /\ IF path \notin visited_paths
                 THEN /\ paths' = Append(paths, path)
                      /\ visited_paths' = visited_paths \cup {path}
                 ELSE UNCHANGED <<paths, visited_paths>>
         ELSE /\ queue' = IF current_node \in DOMAIN remapped_succs
                          THEN append_neighbors(Tail(queue),
                                                remapped_succs[current_node], path, 1)
                          ELSE Tail(queue)
              /\ UNCHANGED <<paths, visited_paths>>
  /\ UNCHANGED <<body, builder_vars, dfs_vars, dfg_vars, src, earlier,
                 remapped_succs, start_node, end_node, max_depth, iter_vars,
                 pc, py_vars>>

\* Line 117: the queue is empty, paths is returned.
FindPathsReturn ==
  /\ pc = "search_loop"
  /\ queue = <<>>
  /\ pc' = "searched"
  /\ UNCHANGED <<body, builder_vars, paths, dfs_vars, dfg_vars, src, earlier,
                 search_vars, iter_vars, py_vars>>

NextSearch == FindPathsSame \/ FindPathsStart \/ FindPathsStep \/ FindPathsReturn

\* The interpreter runs the call to its end: a step that can be taken is taken.
SpecSearch == InitSearch /\ [][NextSearch]_vars /\ WF_vars(NextSearch)

----------------------------------------------------------------------------
(* Properties of find_paths_between_nodes.                                  *)

\* remapped_succs has an edge from node a to node b.
HasEdge(a, b) ==
  /\ a \in DOMAIN remapped_succs
  /\ \E j \in 1..Len(remapped_succs[a]) : remapped_succs[a][j][1] = b

\* The cycle-free node sequences from start_node to end_node along the edges.
SimplePaths ==
  { p \in UNION { [1..n -> 1..NumBlocks] : n \in 1..NumBlocks } :
      /\ NoRepeat(p)
      /\ p[1] = start_node
      /\ Last(p) = end_node
      /\ \A k \in 1..(Len(p) - 1) : HasEdge(p[k], p[k + 1]) }

\* The returned list holds, once each, the paths of SimplePaths with at most
\* max_depth nodes.
ReturnsBoundedSimplePaths ==
  /\ NoRepeat(paths)
  /\ Range(paths) = { p \in SimplePaths : Len(p) <= max_depth }

\* C19 as stated: find_paths_between_nodes returns on every successor graph,
\* and what it returns are, once each, exactly the cycle-free node sequences
\* from start_node to end_node along the edges that have at most max_depth
\* nodes; for start_node = end_node it is [[start_node]].
C19_BoundedSearch ==
  /\ <>(pc = "searched")
  /\ [](pc = "searched" =>
          /\ ReturnsBoundedSimplePaths
          /\ start_node = end_node => paths = <<<<start_node>>>>)

\* C19, amended: find_paths_between_nodes returns on every successor graph;
\* for start_node = end_node it returns [[start_node]] whatever max_depth is
\* (max_depth = 0 included); otherwise what it returns are, once each, exactly
\* the cycle-free node sequences from start_node to end_node along the edges
\* that have at most max_depth nodes.
C19_BoundedSearchButSameNode ==
  /\ <>(pc = "searched")
  /\ [](pc = "searched" =>
          IF start_node = end_node
          THEN paths = <<<<start_node>>>>
          ELSE ReturnsBoundedSimplePaths)

\* C19 witness: the search has returned a path from start_node to another
\* node and left out a longer cycle-free one.
C19_Witness ==
  /\ pc = "searched"
  /\ start_node # end_node
  /\ Len(paths) > 0
  /\ \E p \in SimplePaths : Len(p) > max_depth

----------------------------------------------------------------------------
(* CFG.__iter__ (javacfg/model.py) step by step, on any CFG of up to        *)
(* NumBlocks blocks and on the CFG build returns for a chain of             *)
(* "if (c) return" statements followed by a return.                         *)

\* The most "if (c) return" statements of the chain.
MaxChain == 3

RECURSIVE ReturnChain(_, _)

\* k statements "if (c) return ...;" and a last "return ...;", from row `row` on.
ReturnChain(k, row) ==
  IF k = 0 THEN <<Node("return_statement", row, FALSE, <<>>, FALSE, <<>>)>>
  ELSE <<Node("if_statement", row, TRUE,
              <<Node("return_statement", row + 1, FALSE, <<>>, FALSE, <<>>)>>,
              FALSE, <<>>)>>
       \o ReturnChain(k - 1, row + 2)

\* Mutant of is_known: a block waiting in to_visit is not known.
is_known_visited_only(target, vis, waiting) == target \in vis

\* "if exit_.target in visited or exit_.target in to_visit"
is_known(target, vis, waiting) == target \in vis \/ In(target, waiting)

\* "for exit_ in block.exits", from the j-th exit on: to_visit with the targets
\* appended that are not known.
RECURSIVE append_targets(_, _, _, _, _)
append_targets(cfg, waiting, vis, exits, j) ==
  IF j > Len(exits) THEN waiting
  ELSE LET target == cfg.links[exits[j]].target IN
       append_targets(cfg,
                      IF is_known(target, vis, waiting) THEN waiting
                      ELSE Append(waiting, target),
                      vis, exits, j + 1)

\* A CFG is about to be iterated: any graph of NumBlocks blocks, or the CFG
\* build returned for a chain.
InitIter ==
  /\ \/ /\ body = <<>>
        /\ \E targets \in ExitLists(1, MaxLinks) :
             \E st \in {link_all([NewBuilder(FALSE) EXCEPT
                                    !.blocks = [b \in 1..NumBlocks |-> Block],
                                    !.current_id = NumBlocks,
                                    !.entryblock = 1],
                                 targets, 1, 1)} : Is(st)
     \/ \E k \in 0..MaxChain, separate \in BOOLEAN :
          /\ body = ReturnChain(k, 1)
          /\ \E st \in {build(NewBuilder(separate), body)} : Is(st)
  /\ paths = <<>>
  /\ current = <<>>
  /\ stack = <<>>
  /\ NoDFGBuilder
  /\ earlier = <<>>
  /\ NoPy
  /\ NoSearch
  /\ NoIter
  /\ src = <<>>
  /\ pc = "iter"

\* Lines 93-94.
IterStart ==
  /\ pc = "iter"
  /\ visited_set' = {}
  /\ to_visit' = <<entryblock>>
  /\ pc' = "iter_loop"
  /\ UNCHANGED <<body, builder_vars, paths, dfs_vars, dfg_vars, src, earlier,
                 search_vars, yielded, py_vars>>

\* One round of "while to_visit" (lines 96-102), up to and including the yield.
IterNext ==
  /\ pc = "iter_loop"
  /\ to_visit # <<>>
  /\ LET block == Head(to_visit) IN
     /\ visited_set' = visited_set \cup {block}
     /\ to_visit' = append_targets(State, Tail(to_visit), visited_set',
                                   blocks[block].exits, 1)
     /\ yielded' = Append(yielded, block)
  /\ UNCHANGED <<body, builder_vars, paths, dfs_vars, dfg_vars, src, earlier,
                 search_vars, pc, py_vars>>

\* to_visit is empty; self.functioncfgs is empty (no code fills it), so the
\* iteration is over.
IterStop ==
  /\ pc = "iter_loop"
  /\ to_visit = <<>>
  /\ pc' = "iterated"
  /\ UNCHANGED <<body, builder_vars, paths, dfs_vars, dfg_vars, src, earlier,
                 search_vars, iter_vars, py_vars>>

NextIter == IterStart \/ IterNext \/ IterStop

\* The consumer asks for the next block until the iteration is over.
SpecIter == InitIter /\ [][NextIter]_vars /\ WF_vars(NextIter)

----------------------------------------------------------------------------
(* Properties of CFG.__iter__.                                              *)

\* Block a has an exit to block b.
HasExit(a, b) ==
  \E e \in 1..Len(blocks[a].exits) : links[blocks[a].exits[e]].target = b

\* The place in yielded of the first yielded block that has an exit to
\* yielded[i], and the place of the first such exit in that block's exits.
DiscoveredFrom(i) ==
  CHOOSE j \in 1..Len(yielded) :
    /\ HasExit(yielded[j], yielded[i])
    /\ \A m \in 1..(j - 1) : ~HasExit(yielded[m], yielded[i])

DiscoveredBy(i) ==
  CHOOSE e \in 1..Len(blocks[yielded[DiscoveredFrom(i)]].exits) :
    /\ links[blocks[yielded[DiscoveredFrom(i)]].exits[e]].target = yielded[i]
    /\ \A f \in 1..(e - 1) :
         links[blocks[yielded[DiscoveredFrom(i)]].exits[f]].target # yielded[i]

\* yielded is the breadth-first order from the entry block, exits taken in list
\* order: the entry first, every reachable block once, no other block, and
\* blocks in the order in which they were first met.
BreadthFirst ==
  /\ Len(yielded) > 0
  /\ yielded[1] = entryblock
  /\ NoRepeat(yielded)
  /\ Range(yielded) = Reachable
  /\ \A i \in 2..Len(yielded) :
       /\ \E j \in 1..Len(yielded) : HasExit(yielded[j], yielded[i])
       /\ DiscoveredFrom(i) < i
  /\ \A i, k \in 2..Len(yielded) :
       i < k =>
         \/ DiscoveredFrom(i) < DiscoveredFrom(k)
         \/ /\ DiscoveredFrom(i) = DiscoveredFrom(k)
            /\ DiscoveredBy(i) < DiscoveredBy(k)

\* C20: iterating a CFG comes to an end, on cyclic graphs and self-loops too;
\* the blocks yielded are the blocks reachable from the entry block, once each,
\* in breadth-first order with each block's exits taken in list order; and for
\* a chain of "if (c) return" statements followed by a return the last block
\* yielded holds that last return.
C20_IterBreadthFirst ==
  /\ <>(pc = "iterated")
  /\ [](pc = "iterated" =>
          /\ BreadthFirst
          /\ body # <<>> => Last(yielded) = BlockOf(Last(body)))

\* C20 witness: the iteration of a graph with a self-loop, parallel links and
\* a block that cannot be reached has yielded more than the entry block.
C20_Witness ==
  /\ pc = "iterated"
  /\ body = <<>>
  /\ HasSelfLoopAndParallelLinks
  /\ Len(yielded) > 1
  /\ Len(yielded) < NumBlocks

\* The iteration of the CFG of a chain of two or more "if (c) return" has
\* yielded its blocks.
C20_ChainWitness ==
  /\ pc = "iterated"
  /\ Len(body) > 2
  /\ Len(yielded) = 2 * Len(body) - 1

----------------------------------------------------------------------------
(* The variable extractors applied to one condition-bearing statement:      *)
(* _stmt_occurrences (java/dfg_builder.py) and _collect_names               *)
(* (python/dfg_builder.py).                                                 *)

\* The for-each statements with exactly n nodes starting on row `row`.
ForEachTrees(n, row) ==
  { Node("enhanced_for_statement", row, FALSE, b, FALSE, <<>>)
    : b \in Forests(n - 1, row + 1) }

\* The statements that carry a condition: if, while, for and for-each.
ConditionBearing ==
  UNION { { t \in Trees(n, row) :
              t.type \in {"if_statement", "while_statement", "for_statement"} }
          \cup ForEachTrees(n, row)
          : n \in 1..MaxNodes, row \in 1..2 }

\* One condition-bearing statement is about to be given to an extractor.
InitExtract ==
  /\ \E stmt \in ConditionBearing : body = <<stmt>>
  /\ Is(NewBuilder(FALSE))
  /\ paths = <<>>
  /\ current = <<>>
  /\ stack = <<>>
  /\ NoDFGBuilder
  /\ earlier = <<>>
  /\ NoPy
  /\ NoSearch
  /\ NoIter
  /\ src = <<>>
  /\ pc = "statement"

\* _stmt_occurrences(stmt) of the Java extractor
StmtOccurrences ==
  /\ pc = "statement"
  /\ occurrences' = stmt_occurrences(body[1])
  /\ pc' = "java_occurrences"
  /\ UNCHANGED <<body, builder_vars, paths, dfs_vars, dfg_vars, src, earlier,
                 search_vars, iter_vars, params, dfg_nodes, enclosing>>

\* _collect_names(stmt, vars_to_track) of the Python extractor
CollectNames ==
  /\ pc = "statement"
  /\ occurrences' = collect_names(body[1], vars_to_track)
  /\ pc' = "python_occurrences"
  /\ UNCHANGED <<body, builder_vars, paths, dfs_vars, dfg_vars, src, earlier,
                 search_vars, iter_vars, params, dfg_nodes, enclosing>>

NextExtract == StmtOccurrences \/ CollectNames

SpecExtract == InitExtract /\ [][NextExtract]_vars

\* The identifiers of the part of a statement that the extractor is to scan:
\* the condition of an if, while or for, the loop target and the iterated
\* expression of a for-each (in Python every for is a for-each).
ConditionNames(stmt, python) ==
  IF stmt.type = "enhanced_for_statement" \/ (python /\ stmt.type = "for_statement")
  THEN {VarA(stmt.row), VarB(stmt.row)}
  ELSE IF stmt.hasCond THEN {VarB(stmt.row)} ELSE {}

\* Every extracted occurrence names an identifier of the scanned part.
OnlyConditionNames ==
  \A i \in 1..Len(occurrences) :
    occurrences[i][1] \in ConditionNames(body[1], pc = "python_occurrences")

\* C21: for a condition-bearing statement (if, while, for, for-each) both
\* extractors return only identifiers that occur in the condition (for-each:
\* loop target and iterated expression); no identifier that occurs only in
\* the body is among the occurrences of the construct's own statement.
C21_OnlyConditionScanned ==
  pc \in {"java_occurrences", "python_occurrences"} => OnlyConditionNames

\* C21, the part the code keeps: the Java extractor on if, while and for and
\* the Python extractor on if return identifiers of the condition only.
C21_IfAndJavaLoopsOnlyCondition ==
  (\/ pc = "java_occurrences" /\ body[1].type # "enhanced_for_statement"
   \/ pc = "python_occurrences" /\ body[1].type = "if_statement")
  => OnlyConditionNames

\* C21: the Java extractor was given a for-each, or the Python extractor a
\* while or for, with a body that names an identifier of its own.
C21_BodyScanned ==
  /\ pc \in {"java_occurrences", "python_occurrences"}
  /\ Len(body[1].body) > 0
  /\ ~OnlyConditionNames

----------------------------------------------------------------------------
(* python/dfg_builder.py: build_recursive, the step of build_from_file that *)
(* builds the paths of one function and puts its parameters in front.       *)

\* f"({param}, {line})"
param_text(param, line) == "(" \o param \o ", " \o ToString(line) \o ")"

\* Mutant of add_param: the parameter is given its declaration only.
add_param_alone(func_dfg, param, line) ==
  IF dict_has(func_dfg, param)
  THEN [i \in 1..Len(func_dfg) |->
          IF func_dfg[i].key = param
          THEN [key |-> param, val |-> <<param_text(param, line)>>]
          ELSE func_dfg[i]]
  ELSE Append(func_dfg, [key |-> param, val |-> <<param_text(param, line)>>])

\* Lines 144-147 of build_recursive for one parameter.
add_param(func_dfg, param, line) ==
  IF dict_has(func_dfg, param)
  THEN [i \in 1..Len(func_dfg) |->
          IF func_dfg[i].key = param
          THEN [key |-> param,
                val |-> [k \in 1..Len(func_dfg[i].val) |->
                           param_text(param, line) \o " -> " \o func_dfg[i].val[k]]]
          ELSE func_dfg[i]]
  ELSE Append(func_dfg, [key |-> param, val |-> <<param_text(param, line)>>])

RECURSIVE add_params(_, _, _, _)

\* "for param in param_names" of build_recursive, from parameter i on.
add_params(func_dfg, param_names, line, i) ==
  IF i > Len(param_names) THEN func_dfg
  ELSE add_params(add_param(func_dfg, param_names[i], line), param_names, line, i + 1)

\* The parameter lists of the functions given to build_from_file; the
\* parameters of a list are handled one by one, so the list has one of each
\* kind: c occurs in the entry block, x and y occur on some routes only.
ParamLists == {<<"c", "x", "y">>}

\* The CFG of a function made with Block, Link and CFG directly, as in InitDfs;
\* the def is on line 1 or, with the first statement, on line 2; the statement
\* of the last block is on its own line or on the line of the block before.
\* When the entry block is final the only route is the entry block, whatever
\* else is final, so the entry block is then the one final block.
InitParamsGraph ==
  /\ body = <<>>
  /\ \E targets \in ExitLists(1, MaxLinks),
        finals \in {f \in SUBSET (1..NumBlocks) : 1 \in f => f = {1}},
        one_line \in BOOLEAN :
       LET line(b) == IF one_line /\ b = NumBlocks THEN b ELSE b + 1
           st == link_all([NewBuilder(FALSE) EXCEPT
                             !.blocks = [b \in 1..NumBlocks |->
                                         [Block EXCEPT !.statements =
                                            <<[Assign(b) EXCEPT !.lineno = line(b)]>>]],
                             !.current_id = NumBlocks,
                             !.entryblock = 1,
                             !.finalblocks = sorted(finals)],
                          targets, 1, 1)
       IN  Is(st)
  /\ \E line \in 1..2, param_names \in ParamLists :
       params = [line |-> line, names |-> param_names]

\* A body that ends in a return, starting on row `row`.
ReturnBodies(row) ==
  { <<Node("return_statement", row, FALSE, <<>>, FALSE, <<>>)>>,
    <<Node("expression_statement", row, FALSE, <<>>, FALSE, <<>>),
      Node("return_statement", row + 1, FALSE, <<>>, FALSE, <<>>)>> }

\* The functions whose body is an if / elif / else with a return at the end of
\* each of the three branches (an elif is an if that is the whole else branch).
IfElifElse ==
  UNION { UNION { { <<Node("if_statement", 1, TRUE, b1, TRUE,
                          <<Node("if_statement", 2 + Len(b1), TRUE, b2, TRUE, b3)>>)>>
                    : b3 \in ReturnBodies(3 + Len(b1) + Len(b2)) }
                  : b2 \in ReturnBodies(3 + Len(b1)) }
          : b1 \in ReturnBodies(2) }

\* The CFG of an if / elif / else function, built and normalized the way the
\* CFG builder does it for a conditional; the def is on line 1.
InitParamsIfElifElse ==
  /\ \E b \in IfElifElse :
       /\ body = b
       /\ \E st \in {build(NewBuilder(FALSE), b)} : Is(st)
  /\ \E param_names \in ParamLists : params = [line |-> 1, names |-> param_names]

InitParams ==
  /\ InitParamsGraph \/ InitParamsIfElifElse
  /\ paths = <<>>
  /\ current = <<>>
  /\ stack = <<>>
  /\ NoDFGBuilder
  /\ earlier = <<>>
  /\ occurrences = <<>>
  /\ dfg_nodes = <<>>
  /\ enclosing = <<>>
  /\ NoSearch
  /\ NoIter
  /\ src = <<>>
  /\ pc = "function"

\* build_recursive(func_name, sub) for a function without nested functions.
BuildRecursive ==
  /\ pc = "function"
  /\ paths' = enumerate_paths(State)
  /\ dfg' = add_params(build_dfg(State, <<>>, paths', 1), params.names, params.line, 1)
  /\ pc' = "result"
  /\ UNCHANGED <<body, builder_vars, dfs_vars, start_occurrences, names, seeded,
                 results, unique, src, earlier, search_vars, iter_vars, py_vars>>

NextParams == BuildRecursive

SpecParams == InitParams /\ [][NextParams]_vars

RECURSIVE RouteOccurrences(_, _, _)

\* The occurrences of variable v that _block_occurrences finds in the blocks
\* route[i], route[i+1], ... in turn.
RouteOccurrences(v, route, i) ==
  IF i > Len(route) THEN <<>>
  ELSE SelectSeq(py_block_occurrences(blocks[route[i]].statements, vars_to_track, 1),
                 LAMBDA o : o[1] = v)
       \o RouteOccurrences(v, route, i + 1)

RECURSIVE Collapsed(_, _)

\* occs[i], occs[i+1], ... without those on the line of the occurrence before.
Collapsed(occs, i) ==
  IF i > Len(occs) THEN <<>>
  ELSE (IF i > 1 /\ occs[i][2] = occs[i - 1][2] THEN <<>> ELSE <<occs[i]>>)
       \o Collapsed(occs, i + 1)

\* The path of parameter p along a route: its declaration, then its
\* occurrences along the route.
ParamPathAlong(p, route) ==
  LET occs == Collapsed(RouteOccurrences(p, route, 1), 1)
  IN  IF occs = <<>> THEN param_text(p, params.line)
      ELSE param_text(p, params.line) \o " -> " \o join(occs, 1)

\* The enumerated routes on which variable v occurs, in route order.
RoutesWith(v) == SelectSeq(paths, LAMBDA route : RouteOccurrences(v, route, 1) # <<>>)

C22_SameLineSkipped ==
  /\ pc = "result"
  /\ \E n \in 1..Len(params.names) : \E r \in 1..Len(paths) :
       LET occs == RouteOccurrences(params.names[n], paths[r], 1)
       IN  /\ Len(Collapsed(occs, 1)) < Len(occs)
           /\ In(ParamPathAlong(params.names[n], paths[r]), dict_get(dfg, params.names[n]))

----------------------------------------------------------------------------
(* staticfg/dfg_builder.py: the node-based DFGBuilder on a function made of *)
(* if and return statements.  An if is "if VarB:", a return "return VarA".  *)

\* DFGNode(name, deps or [])
DFGNode(name, deps) == [name |-> name, depends_on |-> deps]

\* DFGBuilder.visit_Return with self.nodes = nds and self.current_cond = cond
\* (None when none is in scope): the value of self.nodes afterwards.
visit_Return(nds, cond, node) ==
  Append(nds, DFGNode(VarA(node.row),
                      IF cond # None THEN <<cond>> ELSE <<VarA(node.row)>>))

RECURSIVE visit_If(_, _, _), visit_stmts(_, _, _, _)

\* "for s in stmts: self.visit(s)", from statement i on.
visit_stmts(nds, cond, stmts, i) ==
  IF i > Len(stmts) THEN nds
  ELSE visit_stmts(IF stmts[i].type = "if_statement"
                   THEN visit_If(nds, cond, stmts[i])
                   ELSE visit_Return(nds, cond, stmts[i]),
                   cond, stmts, i + 1)

\* DFGBuilder.visit_If: the value of self.nodes afterwards; self.current_cond
\* is set back to what it was.
visit_If(nds, prev_cond, node) ==
  LET cond   == <<VarB(node.row)>>
      neg    == <<"not", "(">> \o cond \o <<")">>
      n1     == Append(nds, DFGNode(cond, <<VarB(node.row)>>))
      n2     == visit_stmts(n1, cond, node.body, 1)
  IN  IF node.alt # <<>>
      THEN visit_stmts(Append(n2, DFGNode(neg, <<VarB(node.row)>>)), neg, node.alt, 1)
      ELSE n2

\* DFGBuilder.visit_FunctionDef on a function with these parameters and body,
\* after build has set self.nodes = [] and self.current_cond = None.
visit_FunctionDef(args, stmts) ==
  visit_stmts([i \in 1..Len(args) |-> DFGNode(<<args[i]>>, <<>>)], None, stmts, 1)

RECURSIVE NumberOf(_, _, _)

\* The number of statements of a type in stmts[i], stmts[i+1], ... and in what
\* they hold.
NumberOf(type, stmts, i) ==
  IF i > Len(stmts) THEN 0
  ELSE (IF stmts[i].type = type THEN 1 ELSE 0)
       + NumberOf(type, stmts[i].body, 1) + NumberOf(type, stmts[i].alt, 1)
       + NumberOf(type, stmts, i + 1)

RECURSIVE NumberOfElse(_, _)

\* The number of if statements with an else branch.
NumberOfElse(stmts, i) ==
  IF i > Len(stmts) THEN 0
  ELSE (IF stmts[i].type = "if_statement" /\ stmts[i].alt # <<>> THEN 1 ELSE 0)
       + NumberOfElse(stmts[i].body, 1) + NumberOfElse(stmts[i].alt, 1)
       + NumberOfElse(stmts, i + 1)

RECURSIVE OnlyIfAndReturn(_, _)

\* Python function bodies made of if and return only: every branch holds a
\* statement, and an else branch is there only when it holds one.
OnlyIfAndReturn(stmts, i) ==
  IF i > Len(stmts) THEN TRUE
  ELSE /\ \/ stmts[i].type = "return_statement"
          \/ /\ stmts[i].type = "if_statement"
             /\ stmts[i].body # <<>>
             /\ stmts[i].hasAlt = (stmts[i].alt # <<>>)
             /\ OnlyIfAndReturn(stmts[i].body, 1)
             /\ OnlyIfAndReturn(stmts[i].alt, 1)
       /\ OnlyIfAndReturn(stmts, i + 1)

\* node.args.args of the functions given to the DFGBuilder.
ArgLists == {<<"c">>, <<"x">>, <<"y">>, <<"x", "y">>}

\* A DFGBuilder is about to build the nodes of a function with up to
\* MaxNodes + 1 statements.
InitNodes ==
  /\ \E n \in 1..(MaxNodes + 1) :
       \E b \in {f \in Forests(n, 1) : OnlyIfAndReturn(f, 1)} : body = b
  /\ \E param_names \in ArgLists : params = [line |-> 1, names |-> param_names]
  /\ Is(NewBuilder(FALSE))
  /\ paths = <<>>
  /\ current = <<>>
  /\ stack = <<>>
  /\ NoDFGBuilder
  /\ earlier = <<>>
  /\ occurrences = <<>>
  /\ dfg_nodes = <<>>
  /\ enclosing = <<>>
  /\ NoSearch
  /\ NoIter
  /\ src = <<>>
  /\ pc = "tree"

\* DFGBuilder.build: self.nodes = [], self.current_cond = None, self.visit(tree)
BuildNodes ==
  /\ pc = "tree"
  /\ dfg_nodes' = visit_FunctionDef(params.names, body)
  /\ pc' = "nodes_built"
  /\ UNCHANGED <<body, builder_vars, paths, dfs_vars, dfg_vars, src, earlier,
                 search_vars, iter_vars, occurrences, params, enclosing>>

NextNodes == BuildNodes

SpecNodes == InitNodes /\ [][NextNodes]_vars

\* C23: for a function made only of parameters, ifs and returns the DFG has
\* exactly one node per parameter, one per if condition and one per return;
\* one parameter and an if / else with a return in each branch give 4 nodes.
C23_OneNodePerParamIfReturn ==
  pc = "nodes_built" =>
    Len(dfg_nodes) = Len(params.names) + NumberOf("if_statement", body, 1)
                     + NumberOf("return_statement", body, 1)

\* C23, what the code does: one node more for every if that has an else
\* branch, named "not (cond)".
C23_OneMorePerElse ==
  pc = "nodes_built" =>
    Len(dfg_nodes) = Len(params.names) + NumberOf("if_statement", body, 1)
                     + NumberOf("return_statement", body, 1) + NumberOfElse(body, 1)

\* C23: one parameter and an if / else with a return in each branch gave the
\* five nodes c, "c", x, "not (c)", x.
C23_IfElseGivesFive ==
  /\ pc = "nodes_built"
  /\ Len(params.names) = 1
  /\ Len(body) = 1 /\ body[1].type = "if_statement"
  /\ Len(body[1].body) = 1 /\ body[1].body[1].type = "return_statement"
  /\ Len(body[1].alt) = 1 /\ body[1].alt[1].type = "return_statement"
  /\ Len(dfg_nodes) = 5
  /\ dfg_nodes[4].name = <<"not", "(", "c", ")">>

----------------------------------------------------------------------------
\* C28: for every method body with at least one statement, _enumerate_paths
\* on the CFG that build returns gives at least one path, also for a body
\* that ends with a loop and has no return statement.
C28_SomePath ==
  (pc = "enumerated" /\ Len(body) > 0) => Len(paths) > 0

\* C28, the part the code keeps: a body without any loop has a path.
C28_SomePathWithoutLoop ==
  (pc = "enumerated" /\ Len(body) > 0
   /\ NumberOf("while_statement", body, 1) = 0
   /\ NumberOf("for_statement", body, 1) = 0) => Len(paths) > 0

\* C28: the body is a while loop around an expression statement, with nothing
\* after it, and _enumerate_paths has returned no path.
C28_LoopAtEndNoPath ==
  /\ pc = "enumerated"
  /\ Len(body) = 1 /\ body[1].type = "while_statement"
  /\ Len(body[1].body) = 1 /\ body[1].body[1].type = "expression_statement"
  /\ paths = <<>>

\* C29: the block sequences _enumerate_paths returns for a CFG made by build
\* are pairwise distinct, also where clean_cfg spliced an empty block and left
\* two links between the same two blocks.
C29_NoSequenceTwice ==
  pc = "enumerated" => \A i, j \in 1..Len(paths) : paths[i] = paths[j] => i = j

\* C29, the part the code keeps: no sequence is returned twice for a CFG in
\* which no two links join the same two blocks.
C29_NoSequenceTwiceWithoutParallelLinks ==
  (pc = "enumerated"
   /\ \A l, m \in LiveLinks :
        (links[l].source = links[m].source /\ links[l].target = links[m].target)
        => l = m)
  => \A i, j \in 1..Len(paths) : paths[i] = paths[j] => i = j

\* C29: the body is an if with an empty consequence followed by an expression
\* statement, and _enumerate_paths has returned the same sequence twice.
C29_SpliceGivesSequenceTwice ==
  /\ pc = "enumerated"
  /\ Len(body) = 2 /\ body[1].type = "if_statement" /\ body[1].body = <<>>
  /\ ~body[1].hasAlt /\ body[2].type = "expression_statement"
  /\ Len(spliced) > 0
  /\ Len(paths) = 2 /\ paths[1] = paths[2]

----------------------------------------------------------------------------
RECURSIVE Breakables(_)

\* The loops and switches around the last statement of a body of NestBodies,
\* from the outermost to the innermost.
Breakables(stmts) ==
  IF stmts = <<>> THEN <<>>
  ELSE CASE stmts[1].type \in {"while_statement", "for_statement"} ->
              <<"loop">> \o Breakables(stmts[1].body)
         [] stmts[1].type = "switch_expression" ->
              <<"switch">> \o Breakables(stmts[1].body[1].body)
         [] stmts[1].type = "if_statement" -> Breakables(stmts[1].body)
         [] OTHER -> <<>>

\* The after-block of the innermost loop or switch around the jump of entry e
\* of the history: both stacks hold the after-blocks from the outermost to the
\* innermost construct of their kind.
InnermostAfterBlock(e) ==
  IF Last(Breakables(body)) = "loop"
  THEN Last(e.before.after_loop_block_stack)
  ELSE Last(e.before.after_switch_block_stack)

\* C27: the link added by a break statement goes to the after-block of the
\* nearest enclosing loop or switch, for every nesting of loops and switches;
\* a break in a loop inside a switch case links to the after-loop block.
C27_BreakTargetsInnermost ==
  \A i \in 1..Len(jumps) :
    (jumps[i].node.type = "break_statement" /\ Breakables(body) # <<>>)
      => AddsOneLinkTo(jumps[i], InnermostAfterBlock(jumps[i]))

\* C27, the part the code keeps: the break links to the after-block of the
\* nearest enclosing loop or switch when that is a switch, or when no switch
\* is around the break at all.
C27_InnermostUnlessLoopInSwitch ==
  \A i \in 1..Len(jumps) :
    (/\ jumps[i].node.type = "break_statement"
     /\ Breakables(body) # <<>>
     /\ \/ Last(Breakables(body)) = "switch"
        \/ ~In("switch", Breakables(body)))
      => AddsOneLinkTo(jumps[i], InnermostAfterBlock(jumps[i]))

\* C27: a break in a loop inside a switch case was visited, and its link goes
\* to the after-switch block.
C27_BreakInLoopInSwitch ==
  /\ pc = "built"
  /\ Breakables(body) = <<"switch", "loop">>
  /\ \E i \in 1..Len(jumps) :
       /\ jumps[i].node.type = "break_statement"
       /\ AddsOneLinkTo(jumps[i], Last(jumps[i].before.after_switch_block_stack))
       /\ Last(jumps[i].before.after_switch_block_stack)
            # Last(jumps[i].before.after_loop_block_stack)

----------------------------------------------------------------------------
(* The visit of one statement in the middle of a build: the statement is    *)
(* the last one at the bottom of up to MaxNesting - 1 constructs nested in  *)
(* one another, alone there or after an expression statement.               *)

RECURSIVE Around(_, _, _)

\* The method body with the statements inner inside constructs of the given
\* types nested in one another, the outermost (on row `row`) first; nested as
\* the bodies of NestBodies are.
Around(types, row, inner) ==
  IF types = <<>> THEN inner
  ELSE LET b == Around(Tail(types), row + 1, inner) IN
       IF Head(types) = "switch_expression"
       THEN <<Node("switch_expression", row, FALSE,
                   <<Node("switch_block_statement_group", row, TRUE, b, FALSE, <<>>)>>,
                   FALSE, <<>>)>>
       ELSE <<Node(Head(types), row, TRUE, b, FALSE, <<>>)>>

\* The statements at the bottom: an expression statement if there is one
\* before, then the statement.
Bottom(before_it, stmt, row) ==
  (IF before_it THEN <<Node("expression_statement", row, FALSE, <<>>, FALSE, <<>>)>>
   ELSE <<>>) \o <<stmt>>

\* The builder at the moment it is about to visit stmt at the bottom of the
\* constructs.  Up to there a build does not look at stmt, so the builder is
\* as it is when a break statement stands in its place, but for the nodes the
\* blocks hold as statements, which have stmt in them.
StateBefore(separate, types, before_it, stmt) ==
  LET row     == Len(types) + 1
      jump    == Node("break_statement", stmt.row, FALSE, <<>>, FALSE, <<>>)
      with(s) == [k \in 1..Len(types) |->
                    Around(SubSeq(types, k, Len(types)), k, Bottom(before_it, s, row))[1]]
      st      == raw_build(NewBuilder(separate),
                           Around(types, 1, Bottom(before_it, jump, row))).jumps[1].before
      named(s) == IF \E k \in 1..Len(types) : s = with(jump)[k]
                  THEN with(stmt)[CHOOSE k \in 1..Len(types) : s = with(jump)[k]]
                  ELSE s
  IN  [st EXCEPT !.blocks =
         SubSeq([b \in 1..Len(st.blocks) |->
                   [st.blocks[b] EXCEPT !.statements =
                      SubSeq([i \in 1..Len(st.blocks[b].statements) |->
                                named(st.blocks[b].statements[i])],
                             1, Len(st.blocks[b].statements))]],
                1, Len(st.blocks))]

\* A build is about to visit a statement of up to MaxNodes - 1 nodes.
InitVisit ==
  /\ \E d \in 0..(MaxNesting - 1) :
       \E types \in [1..d -> {"if_statement", "while_statement", "for_statement",
                              "switch_expression"}],
          before_it \in BOOLEAN, separate \in BOOLEAN, n \in 1..(MaxNodes - 1) :
         \E stmt \in Trees(n, d + 1 + (IF before_it THEN 1 ELSE 0)) :
           /\ enclosing = types
           /\ body = Around(types, 1, Bottom(before_it, stmt, d + 1))
           /\ \E st \in {StateBefore(separate, types, before_it, stmt)} : Is(st)
  /\ paths = <<>>
  /\ current = <<>>
  /\ stack = <<>>
  /\ NoDFGBuilder
  /\ earlier = <<>>
  /\ occurrences = <<>>
  /\ params = [line |-> 0, names |-> <<>>]
  /\ dfg_nodes = <<>>
  /\ NoSearch
  /\ NoIter
  /\ src = <<>>
  /\ pc = "visiting"

RECURSIVE Descend(_, _)

\* The statement list d constructs down in a body made by Around.
Descend(stmts, d) ==
  IF d = 0 THEN stmts
  ELSE Descend(IF stmts[1].type = "switch_expression" THEN stmts[1].body[1].body
               ELSE stmts[1].body, d - 1)

\* The statement the build is about to visit, or has just visited.
Visited == Last(Descend(body, Len(enclosing)))

\* self.visit(child) for that statement; the builder as it was is kept.
Visit ==
  /\ pc = "visiting"
  /\ earlier' = <<Forget(State)>>
  /\ \E st \in {visit(State, Visited)} : Becomes(st)
  /\ pc' = "visited"
  /\ UNCHANGED <<body, paths, dfs_vars, dfg_vars, src, search_vars, iter_vars,
                 py_vars>>

NextVisit == Visit

SpecVisit == InitVisit /\ [][NextVisit]_vars

\* The loop statement has its condition: a while always, a for when it has one.
HasCondition(node) == node.type = "while_statement" \/ node.hasCond

\* C24, as the claim has a loop visited.  From the builder `before`: the guard
\* is the current block if that is empty and without exits, else a new block
\* linked from it; the guard gets the loop node and its two exits, to a new
\* body block and to a new after-loop block; the stacks get the guard and the
\* after-loop block, and the body block is the current block.
LoopStarted(before, node) ==
  LET cur    == before.current_block
      reuse  == is_empty(before.blocks[cur]) /\ before.blocks[cur].exits = <<>>
      guard  == IF reuse THEN cur ELSE before.current_id + 1
      first  == IF reuse THEN before.current_id + 1 ELSE before.current_id + 2
      n      == IF reuse THEN Len(before.links) ELSE Len(before.links) + 1
      old    == [b \in 1..(first + 1) |->
                   IF b <= Len(before.blocks) THEN before.blocks[b] ELSE Block]
  IN  [before EXCEPT
         !.current_id = first + 1,
         !.current_block = first,
         !.curr_loop_guard_stack = Append(@, guard),
         !.after_loop_block_stack = Append(@, first + 1),
         !.links = @ \o (IF reuse THEN <<>> ELSE <<Link(cur, guard, None)>>)
                     \o <<Link(guard, first,
                               IF HasCondition(node) THEN cond_of(node) ELSE None),
                          Link(guard, first + 1,
                               IF HasCondition(node) THEN invert(cond_of(node))
                               ELSE None)>>,
         !.blocks = SubSeq([b \in 1..(first + 1) |->
                       [statements   |-> IF b = guard
                                         THEN Append(old[b].statements, node)
                                         ELSE old[b].statements,
                        predecessors |-> old[b].predecessors
                                         \o (IF b = guard /\ ~reuse THEN <<n>> ELSE <<>>)
                                         \o (IF b = first THEN <<n + 1>> ELSE <<>>)
                                         \o (IF b = first + 1 THEN <<n + 2>> ELSE <<>>),
                        exits        |-> old[b].exits
                                         \o (IF b = cur /\ ~reuse THEN <<n>> ELSE <<>>)
                                         \o (IF b = guard THEN <<n + 1, n + 2>> ELSE <<>>)]],
                            1, first + 1)]

\* C24, the end of the loop visit as the claim has it, from the builder `done`
\* in which the body has been visited: a link from the current block back to
\* the guard if that block has no exits, the after-loop block as the current
\* block, the stacks without their tops.
LoopFinished(done) ==
  LET cur   == done.current_block
      guard == Last(done.curr_loop_guard_stack)
      open  == done.blocks[cur].exits = <<>>
      n     == Len(done.links) + 1
  IN  [done EXCEPT
         !.current_block = Last(done.after_loop_block_stack),
         !.curr_loop_guard_stack = Pop(@),
         !.after_loop_block_stack = Pop(@),
         !.links = IF open THEN Append(@, Link(cur, guard, None)) ELSE @,
         !.blocks = IF ~open THEN done.blocks
                    ELSE SubSeq([b \in 1..Len(done.blocks) |->
                            [statements   |-> done.blocks[b].statements,
                             predecessors |-> done.blocks[b].predecessors
                                              \o (IF b = guard THEN <<n>> ELSE <<>>),
                             exits        |-> done.blocks[b].exits
                                              \o (IF b = cur THEN <<n>> ELSE <<>>)]],
                                1, Len(done.blocks))]

\* C24: a while or for loop is visited as claimed: the current block is the
\* guard iff it is empty and without exits, else a new guard is linked from it
\* by one unconditional link; the guard gets the loop node and exactly two
\* exits, to the body with the condition and to the after-loop block with the
\* inverted condition (both None for a for without condition); after the body
\* a link from its current block back to the guard is added iff that block
\* has no exits; the build goes on in the after-loop block.
C24_LoopVisit ==
  (pc = "visited" /\ Visited.type \in {"while_statement", "for_statement"}) =>
    LET before  == earlier[1]
        started == LoopStarted(before, Visited)
        guard   == Last(started.curr_loop_guard_stack)
    IN  /\ Forget(State) = Forget(LoopFinished(visit_block(started, Visited.body)))
        /\ Len(blocks[guard].exits) = 2
        /\ Last(blocks[guard].statements) = Visited
        /\ current_block = Last(started.after_loop_block_stack)
        /\ is_empty(blocks[current_block])

\* C24 witness: a loop with a statement in its body was visited when the
\* current block was not empty: the guard is a new block, linked from that
\* block, and the body is linked back to it.
C24_Witness ==
  /\ pc = "visited"
  /\ Visited.type \in {"while_statement", "for_statement"}
  /\ Len(Visited.body) > 0
  /\ LET guard == Last(LoopStarted(earlier[1], Visited).curr_loop_guard_stack)
     IN  /\ guard # earlier[1].current_block
         /\ links[Len(earlier[1].links) + 1]
              = Link(earlier[1].current_block, guard, None)
         /\ \E l \in 1..Len(links) :
              l > Len(earlier[1].links) + 3 /\ links[l].target = guard

\* The number of constructs of a kind around the visited statement.
Enclosing(kinds) == Cardinality({k \in 1..Len(enclosing) : enclosing[k] \in kinds})

\* C26: when a nested statement is visited the loop-guard stack and the
\* after-loop stack are as long as the number of loops around it and the
\* after-switch stack as long as the number of switches around it; a visit
\* that has completed leaves the three stacks as it found them, and they are
\* empty when the build has visited the last statement of the body.
C26_StacksBalanced ==
  /\ pc = "visiting" =>
       /\ Len(curr_loop_guard_stack) = Enclosing({"while_statement", "for_statement"})
       /\ Len(after_loop_block_stack) = Enclosing({"while_statement", "for_statement"})
       /\ Len(after_switch_block_stack) = Enclosing({"switch_expression"})
  /\ pc = "visited" =>
       /\ curr_loop_guard_stack = earlier[1].curr_loop_guard_stack
       /\ after_loop_block_stack = earlier[1].after_loop_block_stack
       /\ after_switch_block_stack = earlier[1].after_switch_block_stack
       /\ enclosing = <<>> =>
            /\ curr_loop_guard_stack = <<>>
            /\ after_loop_block_stack = <<>>
            /\ after_switch_block_stack = <<>>

\* C26 witness: a loop with a switch in it was visited inside a loop that is
\* inside a switch.
C26_Witness ==
  /\ pc = "visited"
  /\ enclosing = <<"switch_expression", "while_statement">>
  /\ Visited.type \in {"while_statement", "for_statement"}
  /\ Len(Visited.body) > 0 /\ Visited.body[1].type = "switch_expression"
  /\ Len(after_switch_block_stack) = 1 /\ Len(after_loop_block_stack) = 1

----------------------------------------------------------------------------
\* C25: in the CFG that build returns, every predecessor link of a block
\* reachable from the entry block has a source that is reachable from the
\* entry block; so after an if branch that ends with a return, the block after
\* the if has no predecessor link whose source belongs to that branch.
C25_PredecessorSourcesReachable ==
  pc = "built" =>
    \A b \in Reachable :
      \A i \in 1..Len(blocks[b].predecessors) :
        links[blocks[b].predecessors[i]].source \in Reachable

\* C25, the part the code keeps: it holds for a body without return, break,
\* continue and switch statements.
C25_ReachableWithoutJumps ==
  (pc = "built"
   /\ NumberOf("switch_expression", body, 1) = 0
   /\ NumberOf("return_statement", body, 1) = 0
   /\ NumberOf("break_statement", body, 1) = 0
   /\ NumberOf("continue_statement", body, 1) = 0) =>
    \A b \in Reachable :
      \A i \in 1..Len(blocks[b].predecessors) :
        links[blocks[b].predecessors[i]].source \in Reachable

\* C25: `if (c) { return; } x;` was built, and the block of the statement
\* after the if has a predecessor link from the empty block that
\* visit_return_statement left as the current block of the branch, which is
\* not reachable from the entry block.
C25_ReturnBranchLinked ==
  /\ pc = "built"
  /\ Len(body) = 2 /\ body[1].type = "if_statement" /\ ~body[1].hasAlt
  /\ Len(body[1].body) = 1 /\ body[1].body[1].type = "return_statement"
  /\ body[2].type = "expression_statement"
  /\ \E i \in 1..Len(blocks[BlockOf(body[2])].predecessors) :
       LET source == links[blocks[BlockOf(body[2])].predecessors[i]].source
       IN  /\ source \notin Reachable
           /\ is_empty(blocks[source])
           /\ source > BlockOf(body[1].body[1])

----------------------------------------------------------------------------
(* clean_cfg on the raw graph that the visitors have produced.              *)

\* build has visited the method body and is about to call clean_cfg.
InitClean ==
  /\ \E n \in 0..MaxNodes :
       \/ n = 0 /\ body = <<>>
       \/ \E k \in 1..n : \E t \in Trees(k, 1), f \in Forests(n - k, 1 + k) :
            body = <<t>> \o f
  /\ \E separate \in BOOLEAN :
       \E st \in {raw_build(NewBuilder(separate), body)} : Is(st)
  /\ paths = <<>>
  /\ current = <<>>
  /\ stack = <<>>
  /\ NoDFGBuilder
  /\ earlier = <<>>
  /\ NoPy
  /\ NoSearch
  /\ NoIter
  /\ src = <<>>
  /\ pc = "raw"

\* self.clean_cfg(self.cfg.entryblock); the raw graph is kept.
CleanCfg ==
  /\ pc = "raw"
  /\ earlier' = <<Forget(State)>>
  /\ \E st \in {clean_cfg(State, entryblock, <<>>).st} : Becomes(st)
  /\ pc' = "normalized"
  /\ UNCHANGED <<body, paths, dfs_vars, dfg_vars, src, search_vars, iter_vars,
                 py_vars>>

NextClean == CleanCfg

SpecClean == InitClean /\ [][NextClean]_vars

\* The blocks that the exits of the blocks in from lead to.
Targets(bs, ls, from) == {ls[l].target : l \in UNION {Range(bs[b].exits) : b \in from}}

RECURSIVE ThroughEmpty(_, _, _)

\* The blocks that a path of links reaches from the blocks in seen, when no
\* block on the path between its two ends has a statement.
ThroughEmpty(bs, ls, seen) ==
  LET more == Targets(bs, ls, {b \in seen : is_empty(bs[b])})
  IN  IF more \subseteq seen THEN seen ELSE ThroughEmpty(bs, ls, seen \cup more)

\* The raw graph has a path from block a to block b whose intermediate blocks
\* are all empty.
RawPath(a, b) ==
  b \in ThroughEmpty(earlier[1].blocks, earlier[1].links,
                     Targets(earlier[1].blocks, earlier[1].links, {a}))

\* The blocks with a statement; clean_cfg moves no statement.
NonEmpty == {b \in 1..Len(blocks) : ~is_empty(blocks[b])}

C30_DeadLoopNotSpliced ==
  /\ pc = "normalized"
  /\ \E a \in NonEmpty \ Reachable :
       RawPath(a, a) /\ a \notin Targets(blocks, links, {a})

====
